---- MODULE Spec2Model ----
(***************************************************************************)
(* Model of the experiment-orchestration core of the political             *)
(* polarization chat simulator:                                            *)
(*   src/simulation/conversation_simulator.py  (ConversationEndingManager, *)
(*                                              ConversationSimulator)     *)
(*   src/simulation/experiment_controller.py   (ExperimentController)      *)
(*   src/simulation/rate_limiter.py            (GeminiRateLimiter)         *)
(*   src/simulation/interventions.py           (get_user_stance, texts)    *)
(*                                                                         *)
(* Texts are sequences of word tokens.  The Hebrew strings of the source   *)
(* are transliterated word by word, punctuation marks being tokens of      *)
(* their own, so that Python's `phrase in text` is the contiguous          *)
(* sub-sequence test Contains(phrase, text).                               *)
(***************************************************************************)
EXTENDS Integers, Sequences, FiniteSets, TLC

VARIABLES
    \* ---- ConversationSimulator.simulate_conversation ----
    pc,                 \* position in simulate_conversation
    max_messages,       \* parameter max_messages
    profile_data,       \* parameter profile_data
    intervention_type,  \* parameter intervention_type
    conversation,       \* local list `conversation` of [role, content]
    phase,              \* local `phase`
    reason,             \* local `reason` ("unbound" until first assigned)
    attempt,            \* loop variable `attempt` of the running generator
    call_attempts,      \* provider attempts made by the running generator call
    result,             \* the dictionary returned by simulate_conversation
    exc,                \* the exception propagating out of the call, if any
    last_request_time,  \* self.last_request_time
    now,                \* wall clock, in ticks of 1/TicksPerSecond s
    \* ---- completion provider (external collaborator, a scripted stub) ----
    script,             \* outcomes the stub cycles through, one per call
    provider_calls,     \* number of generate_content calls made so far
    prompt,             \* what the last generate_content call was given
    \* ---- module random ----
    rng,                \* the tenths random.random() cycles through; <<>>: any
    rng_pos,            \* position in rng
    \* ---- ConversationEndingManager.should_end applied to drawn inputs ----
    se_in,              \* inputs of the last should_end evaluation
    se_out,             \* its result
    \* ---- ExperimentController.run_experiment ----
    exp_pc,             \* position in run_experiment
    all_profiles,       \* what load_all_profiles returns, in dictionary order
    test_mode,          \* parameter test_mode
    specific_profiles,  \* parameter specific_profiles (<<>> for None)
    combinations,       \* local list `combinations`
    idx,                \* loop counter `i` (1-based)
    successful,         \* results['successful']
    failed,             \* results['failed']
    saved,              \* conversation files written by save_conversation
    logs,               \* experiment logs written by _save_experiment_log
    disk,               \* whether the output directory is writable
    \* ---- GeminiRateLimiter ----
    request_times,      \* self.request_times
    daily_request_count,\* self.daily_request_count
    daily_reset_time,   \* self.daily_reset_time
    token_usage,        \* self.token_usage
    limits,             \* the three ceilings: attributes set in __init__
    admitted,           \* number of wait_if_needed calls that returned
    recorded,           \* number of record_request calls
    \* ---- callers of the limiter ----
    rl_callers,         \* per caller: position, estimated_tokens, wake-up
                        \* time of its sleep, the exception it was raised
    rl_status,          \* the dictionary returned by the last get_status
    \* ---- functions applied to drawn inputs, and the command line ----
    pf_in,              \* the argument of the function under evaluation
    pf_out,             \* its result
    exit_status         \* exit status of the command-line process; -1 while
                        \* it runs

simVars  == <<pc, max_messages, profile_data, intervention_type, conversation,
              phase, reason, attempt, call_attempts, result, exc,
              last_request_time, now, script, provider_calls, prompt, rng, rng_pos>>
seVars   == <<se_in, se_out>>
expVars  == <<exp_pc, all_profiles, test_mode, specific_profiles, combinations,
              idx, successful, failed, saved, logs, disk>>
rlVars   == <<request_times, daily_request_count, daily_reset_time, token_usage,
              limits, admitted, recorded>>
limVars  == <<rl_callers, rl_status>>
auxVars  == <<pf_in, pf_out, exit_status>>
vars     == <<simVars, seVars, expVars, rlVars, limVars, auxVars>>

(***************************************************************************)
(* Bounds of the model                                                     *)
(***************************************************************************)
MaxScriptLen == 2
MaxCeiling == 26
StartTime == 1000
MaxAdmits == 3
TicksPerSecond == 2

(***************************************************************************)
(* Constants of the program                                                *)
(***************************************************************************)
HardLimit == 24
MinNaturalEnding == 18
SoftEndingStart == 20
SoftEndingTenths == 3
max_retries == 3
min_request_interval == 10
DefaultRetryDelay == 60
RetryBuffer == 2
DefaultMaxMessages == 24
UserHistoryWindow == 4
requests_per_minute == 10
requests_per_day == 1500
tokens_per_minute == 4000000
DequeMaxLen == 100
DaySeconds == 86400
WindowSeconds == 60
WaitBuffer == 1
DefaultWait == 10
DefaultEstimate == 500
EstimatedTokens == 2000
TokensUsed == 2000
InterConversationDelay == 5
LongPause == 60
PauseEvery == 5
RateLimitCooldown == 300
CheckpointFailures == 3
TestModeLimit == 3

\* the ceilings __init__ sets
DefaultLimits ==
    [requests_per_minute |-> requests_per_minute,
     requests_per_day |-> requests_per_day,
     tokens_per_minute |-> tokens_per_minute]

\* random.random(), in tenths
Draws == 0..9

(***************************************************************************)
(* Module random: the k-th next draw                                       *)
(***************************************************************************)
\* the values random.random() can return at its k-th next call (k from 0)
RandAt(k) ==
    IF rng = <<>> THEN Draws ELSE {rng[((rng_pos + k) % Len(rng)) + 1]}

\* the 1-based indices random.choice can pick in a list of n elements, and
\* randbelow(n) + 1, at the k-th next call
ChoiceAt(k, n) ==
    IF rng = <<>> THEN 1..n ELSE {(d % n) + 1 : d \in RandAt(k)}

\* the position in rng after k calls
RngAfter(k) ==
    IF rng = <<>> THEN rng_pos ELSE (rng_pos + k) % Len(rng)

\* exceptions are records of their type and of the words of str(e)
NoException == [type |-> "none", msg |-> <<>>]
StanceTypeError ==
    [type |-> "TypeError",
     msg |-> <<"'>='", "not", "supported", "between", "instances", "of",
               "'str'", "and", "'int'">>]
ProviderError(o) ==
    [type |-> "ProviderError",
     msg |-> IF o.code429 /\ o.exhausted
             THEN <<"429", "RESOURCE_EXHAUSTED">> ELSE <<"500", "INTERNAL">>]

(***************************************************************************)
(* Texts                                                                   *)
(***************************************************************************)
Whitespace == {" ", "\n"}

RECURSIVE LStrip(_)
LStrip(t) == IF t # <<>> /\ Head(t) \in Whitespace THEN LStrip(Tail(t)) ELSE t

RECURSIVE RStrip(_)
RStrip(t) == IF t # <<>> /\ t[Len(t)] \in Whitespace
             THEN RStrip(SubSeq(t, 1, Len(t) - 1)) ELSE t

\* str.strip()
Strip(t) == RStrip(LStrip(t))

\* `p in t` for strings: p occurs in t as a contiguous run
Contains(p, t) ==
    \E i \in 1..(Len(t) - Len(p) + 1) : SubSeq(t, i, i + Len(p) - 1) = p

\* the list ending_phrases of should_end
ending_phrases == <<
    <<"toda", "al", "hasicha">>,
    <<"haya", "meanyen">>,
    <<"nechmad", "shedibarnu">>,
    <<"ani", "tsarich", "lalechet">>,
    <<"bo", "nesayem">>,
    <<"naskim", "shelo", "naskim">> >>

\* interventions.AGENT_OPENINGS
AGENT_OPENINGS == <<
    <<"shalom", ",", "eich", "ata", "margish", "im", "hamatsav", "bayamim", "haele", "?">>,
    <<"hay", ",", "ma", "daatcha", "al", "ma", "shekore", "achshav", "im", "hamilchama", "?">>,
    <<"shalom", ",", "eich", "ata", "mitmoded", "im", "kol", "ma", "shekore", "?">>,
    <<"hay", ",", "eich", "hamatsav", "?", "eich", "ata", "im", "kol", "ma", "shekore", "beaza", "?">>,
    <<"shalom", ",", "ma", "over", "alecha", "batkufa", "hakasha", "hazot", "?">> >>

\* the list closings of _generate_user_closing
closings == <<
    <<"toda", "al", "hasicha">>,
    <<"haya", "meanyen", "lishmoa", "otcha">>,
    <<"natata", "li", "al", "ma", "lachshov">>,
    <<"tov", ",", "nechmad", "shedibarnu">>,
    <<"ani", "tsarich", "leakel", "et", "ze">> >>

Phases == <<"active", "pre_closure", "soft_closure", "closure", "final">>

\* ConversationSimulator._get_fallback_response
_get_fallback_response(ph, role) ==
    IF role = "agent"
    THEN CASE ph = "active" ->
                <<"ani", "mevin", "et", "haemda", "shelcha", ".", "ze", "beemet", "matsav", "murkav", ".">>
           [] ph = "pre_closure" ->
                <<"nire", "sheanachnu", "nogim", "binkudot", "chashuvot", "po", ".">>
           [] ph = "soft_closure" ->
                <<"lamrot", "hevdelei", "hadeot", ",", "ani", "maarich", "et", "haptichut", "shelcha", ".">>
           [] ph = "closure" ->
                <<"toda", "al", "hasicha", "hakena", ".", "ze", "chashuv", "sheanachnu", "medabrim", ".">>
           [] ph = "final" ->
                <<"haya", "chashuv", "lishmoa", "et", "hazavit", "shelcha", ".", "toda", ".">>
           [] OTHER -> <<"ani", "mevin", ".">>
    ELSE CASE ph = "active" ->
                <<"ze", "mesubach", ".", "kashe", "li", "im", "kol", "hamatsav", ".">>
           [] ph = "pre_closure" ->
                <<"ken", ",", "yesh", "harbe", "ma", "lachshov", "alav", ".">>
           [] ph = "soft_closure" ->
                <<"ani", "mevin", "meeifo", "ata", "ba", ".">>
           [] ph = "closure" -> <<"toda", "al", "hasicha", ".">>
           [] ph = "final" -> <<"haya", "meanyen", ".">>
           [] OTHER -> <<"nachon", ".">>

(***************************************************************************)
(* ConversationEndingManager                                               *)
(***************************************************************************)
\* the table with the first boundary at an odd count
ending_phases_OddBoundary == <<
    [name |-> "active",       lo |-> 0,  hi |-> 17],
    [name |-> "pre_closure",  lo |-> 17, hi |-> 18],
    [name |-> "soft_closure", lo |-> 18, hi |-> 20],
    [name |-> "closure",      lo |-> 20, hi |-> 22],
    [name |-> "final",        lo |-> 22, hi |-> 24] >>

\* self.ending_phases, in insertion order
ending_phases == <<
    [name |-> "active",       lo |-> 0,  hi |-> 16],
    [name |-> "pre_closure",  lo |-> 16, hi |-> 18],
    [name |-> "soft_closure", lo |-> 18, hi |-> 20],
    [name |-> "closure",      lo |-> 20, hi |-> 22],
    [name |-> "final",        lo |-> 22, hi |-> 24] >>

RECURSIVE PhaseFrom(_, _)
PhaseFrom(message_count, k) ==
    IF k > Len(ending_phases) THEN "final"
    ELSE IF ending_phases[k].lo <= message_count /\ message_count < ending_phases[k].hi
         THEN ending_phases[k].name
         ELSE PhaseFrom(message_count, k + 1)

\* get_phase without the default of line 36 behind the table
get_phase_NoDefault(message_count) ==
    IF message_count >= ending_phases[Len(ending_phases)].hi THEN "active"
    ELSE PhaseFrom(message_count, 1)

get_phase(message_count) == PhaseFrom(message_count, 1)

\* any(phrase in last_msg for phrase in ending_phrases)
HasEndingPhrase(last_msg) ==
    \E k \in 1..Len(ending_phrases) : Contains(ending_phrases[k], last_msg)

\* should_end without the minimum of 18 turns before a closing phrase counts
should_end_NoMinimum(message_count, last_messages, draw) ==
    IF message_count >= HardLimit THEN <<TRUE, "hard_limit">>
    ELSE IF /\ last_messages # <<>>
            /\ HasEndingPhrase(last_messages[Len(last_messages)].content)
         THEN <<TRUE, "natural_ending">>
    ELSE IF message_count >= SoftEndingStart /\ draw < SoftEndingTenths
         THEN <<TRUE, "soft_ending">>
    ELSE <<FALSE, "None">>

\* should_end looking for closing phrases only from 20 turns on
should_end_LateNatural(message_count, last_messages, draw) ==
    IF message_count >= HardLimit THEN <<TRUE, "hard_limit">>
    ELSE IF /\ message_count >= SoftEndingStart
            /\ last_messages # <<>>
            /\ HasEndingPhrase(last_messages[Len(last_messages)].content)
         THEN <<TRUE, "natural_ending">>
    ELSE IF message_count >= SoftEndingStart /\ draw < SoftEndingTenths
         THEN <<TRUE, "soft_ending">>
    ELSE <<FALSE, "None">>

\* should_end testing the closing phrase before the hard limit
should_end_PhraseFirst(message_count, last_messages, draw) ==
    IF /\ message_count >= MinNaturalEnding
       /\ last_messages # <<>>
       /\ HasEndingPhrase(last_messages[Len(last_messages)].content)
    THEN <<TRUE, "natural_ending">>
    ELSE IF message_count >= HardLimit THEN <<TRUE, "hard_limit">>
    ELSE IF message_count >= SoftEndingStart /\ draw < SoftEndingTenths
         THEN <<TRUE, "soft_ending">>
    ELSE <<FALSE, "None">>

\* should_end matching the closing phrases against every turn it is given
should_end_AnyTurn(message_count, last_messages, draw) ==
    IF message_count >= HardLimit THEN <<TRUE, "hard_limit">>
    ELSE IF /\ message_count >= MinNaturalEnding
            /\ \E i \in DOMAIN last_messages : HasEndingPhrase(last_messages[i].content)
         THEN <<TRUE, "natural_ending">>
    ELSE IF message_count >= SoftEndingStart /\ draw < SoftEndingTenths
         THEN <<TRUE, "soft_ending">>
    ELSE <<FALSE, "None">>

\* should_end(message_count, last_messages) with the value drawn by
\* random.random() as third argument; the result is <<should_end, reason>>
should_end(message_count, last_messages, draw) ==
    IF message_count >= HardLimit THEN <<TRUE, "hard_limit">>
    ELSE IF /\ message_count >= MinNaturalEnding
            /\ last_messages # <<>>
            /\ HasEndingPhrase(last_messages[Len(last_messages)].content)
         THEN <<TRUE, "natural_ending">>
    ELSE IF message_count >= SoftEndingStart /\ draw < SoftEndingTenths
         THEN <<TRUE, "soft_ending">>
    ELSE <<FALSE, "None">>

\* whether should_end gets as far as calling random.random()
should_end_draws(message_count, last_messages) ==
    /\ message_count < HardLimit
    /\ ~(/\ message_count >= MinNaturalEnding
         /\ last_messages # <<>>
         /\ HasEndingPhrase(last_messages[Len(last_messages)].content))
    /\ message_count >= SoftEndingStart

(***************************************************************************)
(* Completion provider: a stub that cycles through a script of outcomes    *)
(***************************************************************************)
OkPlain    == [kind |-> "ok", text |-> <<" ", "ani", "lo", "batuach", "\n">>,
               code429 |-> FALSE, exhausted |-> FALSE, hasDelay |-> FALSE, retryDelay |-> 0]
OkPhrase(k) == [OkPlain EXCEPT !.text = ending_phrases[k]]
OkEmbedded == [OkPlain EXCEPT !.text = <<"tov", ",", "bo", "nesayem", "kan", ".", "\n">>]
OkNearMiss == [OkPlain EXCEPT !.text = <<"toda", "al", "hakol">>]
QuotaErr   == [kind |-> "error", text |-> <<>>,
               code429 |-> TRUE, exhausted |-> TRUE, hasDelay |-> FALSE, retryDelay |-> 0]
QuotaErrDelay == [QuotaErr EXCEPT !.hasDelay = TRUE, !.retryDelay = 7]
OtherErr   == [QuotaErr EXCEPT !.code429 = FALSE, !.exhausted = FALSE]

Alphabet == {OkPlain, OkPhrase(1), QuotaErr, OtherErr}

Scripts ==
    UNION {[1..n -> Alphabet] : n \in 1..MaxScriptLen}
    \cup {<<OkPhrase(k)>> : k \in 1..Len(ending_phrases)}
    \cup {<<OkEmbedded>>, <<OkNearMiss>>, <<QuotaErrDelay>>, <<OkPlain, QuotaErrDelay>>}

\* the outcome of the next generate_content call
ProviderOutcome == script[(provider_calls % Len(script)) + 1]

(***************************************************************************)
(* Profiles and interventions.  A profile id is the sequence of the words  *)
(* its file name joins with "_".                                           *)
(***************************************************************************)
Interventions == <<"shared_identity", "misperception_correction", "control">>

ProfileLeft ==
    [profile_id |-> <<"left", "1">>, stance_type |-> "int", political_stance |-> 1,
     has_opening |-> TRUE, opening_response |-> <<"dai", "lamilchama">>,
     typical_phrases |-> << <<"tsarich", "iska">> >>]
ProfileCenter ==
    [profile_id |-> <<"center", "1">>, stance_type |-> "int", political_stance |-> 3,
     has_opening |-> FALSE, opening_response |-> <<>>,
     typical_phrases |-> <<>>]
ProfileRight ==
    [profile_id |-> <<"right", "1">>, stance_type |-> "int", political_stance |-> 5,
     has_opening |-> TRUE, opening_response |-> <<"tsarich", "lenatseach">>,
     typical_phrases |-> << <<"rak", "koach">>, <<"haya", "meanyen">> >>]
\* a profile file whose political_stance is not all digits: the loader keeps
\* the value as a string
ProfileMalformed ==
    [ProfileCenter EXCEPT !.profile_id = <<"center", "2">>, !.stance_type = "str"]
ProfileCenterLeft ==
    [ProfileCenter EXCEPT !.profile_id = <<"center", "left", "1">>,
                          !.political_stance = 2]

\* get_user_stance raises TypeError when it compares a string with 4
get_user_stance_raises(p) == p.stance_type # "int"

\* ConversationSimulator._generate_user_opening
_generate_user_opening(p) ==
    IF p.has_opening THEN p.opening_response
    ELSE <<"kashe", "li", "im", "kol", "hamatsav", "haze">>

(***************************************************************************)
(* ConversationSimulator: retry loops of the two generators                *)
(***************************************************************************)
IsQuotaError(e) == e.code429 /\ e.exhausted

\* the delay of the payload without the default of line 90
_extract_retry_delay_NoDefault(e) == e.retryDelay

_extract_retry_delay(e) == IF e.hasDelay THEN e.retryDelay ELSE DefaultRetryDelay

\* the agent's retry loop letting an error that is not a quota error escape
AgentAttemptStepReraise(att, o, ph) ==
    IF o.kind = "ok"
    THEN [kind |-> "return", text |-> Strip(o.text), sleep |-> 0]
    ELSE IF IsQuotaError(o) /\ att < max_retries - 1
         THEN [kind |-> "retry", text |-> <<>>,
               sleep |-> _extract_retry_delay(o) + RetryBuffer]
    ELSE IF att = max_retries - 1
         THEN [kind |-> "return", text |-> _get_fallback_response(ph, "agent"), sleep |-> 0]
    ELSE [kind |-> "raise", text |-> <<>>, sleep |-> 0]

\* the agent's retry loop falling back to the canned response of the active
\* phase whatever the phase
AgentAttemptStepStaleFallback(att, o, ph) ==
    IF o.kind = "ok"
    THEN [kind |-> "return", text |-> Strip(o.text), sleep |-> 0]
    ELSE IF IsQuotaError(o) /\ att < max_retries - 1
         THEN [kind |-> "retry", text |-> <<>>,
               sleep |-> _extract_retry_delay(o) + RetryBuffer]
    ELSE IF att = max_retries - 1
         THEN [kind |-> "return", text |-> _get_fallback_response("active", "agent"), sleep |-> 0]
    ELSE [kind |-> "retry", text |-> <<>>, sleep |-> 0]

\* One iteration of the `for attempt` loop of _generate_agent_response:
\* what happens on provider outcome o at loop index att in phase ph.
AgentAttemptStep(att, o, ph) ==
    IF o.kind = "ok"
    THEN [kind |-> "return", text |-> Strip(o.text), sleep |-> 0]
    ELSE IF IsQuotaError(o) /\ att < max_retries - 1
         THEN [kind |-> "retry", text |-> <<>>,
               sleep |-> _extract_retry_delay(o) + RetryBuffer]
    ELSE IF att = max_retries - 1
         THEN [kind |-> "return", text |-> _get_fallback_response(ph, "agent"), sleep |-> 0]
    ELSE [kind |-> "retry", text |-> <<>>, sleep |-> 0]

\* the subject's retry loop without the except clause
UserAttemptStepNoCatch(att, o, ph, p, tp) ==
    IF o.kind = "ok"
    THEN [kind |-> "return", text |-> Strip(o.text), sleep |-> 0]
    ELSE [kind |-> "raise", text |-> <<>>, sleep |-> 0]

\* One iteration of the `for attempt` loop of _generate_user_response; tp is
\* the index drawn by random.choice(typical_phrases).
UserAttemptStep(att, o, ph, p, tp) ==
    IF o.kind = "ok"
    THEN [kind |-> "return", text |-> Strip(o.text), sleep |-> 0]
    ELSE IF IsQuotaError(o) /\ att < max_retries - 1
         THEN [kind |-> "retry", text |-> <<>>,
               sleep |-> _extract_retry_delay(o) + RetryBuffer]
    ELSE IF att = max_retries - 1
         THEN [kind |-> "return",
               text |-> IF p.typical_phrases # <<>> THEN p.typical_phrases[tp]
                        ELSE _get_fallback_response(ph, "user"),
               sleep |-> 0]
    ELSE [kind |-> "retry", text |-> <<>>, sleep |-> 0]

\* whether this iteration of _generate_user_response calls random.choice
UserAttemptDraws(att, o, p) ==
    /\ o.kind # "ok"
    /\ ~(IsQuotaError(o) /\ att < max_retries - 1)
    /\ att = max_retries - 1
    /\ p.typical_phrases # <<>>

\* the clock after ConversationSimulator._wait_for_rate_limit
AfterRateLimitWait ==
    IF now - last_request_time < min_request_interval * TicksPerSecond
    THEN last_request_time + min_request_interval * TicksPerSecond
    ELSE now

\* conversation[-2:]
LastTwo(c) == SubSeq(c, IF Len(c) > 2 THEN Len(c) - 1 ELSE 1, Len(c))

Turn(role, content) == [role |-> role, content |-> content]

\* conversation[-n:]
Recent(c, n) == SubSeq(c, IF Len(c) > n THEN Len(c) - n + 1 ELSE 1, Len(c))

\* The parts of a prompt that vary with the conversation: the turns of the
\* `history` block and the phase.  No prompt before the first call.
NoPrompt == [role |-> "none", history |-> <<>>, phase |-> "unbound"]

\* lines 108-122: the prompt of _generate_agent_response
AgentPrompt(conv, ph) == [role |-> "agent", history |-> conv, phase |-> ph]

\* lines 179-196: the prompt of _generate_user_response
UserPrompt(conv, ph) ==
    [role |-> "user", history |-> Recent(conv, UserHistoryWindow), phase |-> ph]

(***************************************************************************)
(* ConversationSimulator.simulate_conversation                             *)
(***************************************************************************)
\* the opening turns, the subject's one appended with the agent's role
BeginSameRole ==
    /\ pc = "start"
    /\ \E o \in ChoiceAt(0, Len(AGENT_OPENINGS)) :
          conversation' = << Turn("assistant", AGENT_OPENINGS[o]),
                             Turn("assistant", _generate_user_opening(profile_data)) >>
    /\ rng_pos' = RngAfter(1)
    /\ pc' = "loop"
    /\ UNCHANGED <<max_messages, profile_data, intervention_type, phase, reason,
                   attempt, call_attempts, result, exc, last_request_time, now,
                   script, provider_calls, prompt, rng>>

\* lines 263-284: both opening turns
Begin ==
    /\ pc = "start"
    /\ \E o \in ChoiceAt(0, Len(AGENT_OPENINGS)) :
          conversation' = << Turn("assistant", AGENT_OPENINGS[o]),
                             Turn("user", _generate_user_opening(profile_data)) >>
    /\ rng_pos' = RngAfter(1)
    /\ pc' = "loop"
    /\ UNCHANGED <<max_messages, profile_data, intervention_type, phase, reason,
                   attempt, call_attempts, result, exc, last_request_time, now,
                   script, provider_calls, prompt, rng>>

\* line 287-288 and the entry of _generate_agent_response (lines 100-102)
LoopTest ==
    /\ pc = "loop"
    /\ IF Len(conversation) < max_messages
       THEN /\ phase' = get_phase(Len(conversation))
            /\ pc' = IF get_user_stance_raises(profile_data) THEN "raised" ELSE "agent_gen"
            /\ exc' = IF get_user_stance_raises(profile_data) THEN StanceTypeError ELSE exc
            /\ attempt' = 0
            /\ call_attempts' = 0
       ELSE /\ pc' = "return"
            /\ UNCHANGED <<phase, attempt, call_attempts, exc>>
    /\ UNCHANGED <<max_messages, profile_data, intervention_type, conversation,
                   reason, result, last_request_time, now, script, provider_calls, prompt,
                   rng, rng_pos>>

\* one attempt of _generate_agent_response; on return, lines 298-302
AgentAttempt ==
    /\ pc = "agent_gen"
    /\ LET step == AgentAttemptStep(attempt, ProviderOutcome, phase) IN
          /\ last_request_time' = AfterRateLimitWait
          /\ now' = AfterRateLimitWait + step.sleep * TicksPerSecond
          /\ provider_calls' = provider_calls + 1
          /\ prompt' = AgentPrompt(conversation, phase)
          /\ call_attempts' = call_attempts + 1
          /\ CASE step.kind = "return" ->
                    /\ conversation' = Append(conversation, Turn("assistant", step.text))
                    /\ pc' = "check"
                    /\ UNCHANGED <<attempt, exc>>
               [] step.kind = "retry" ->
                    /\ attempt' = attempt + 1
                    /\ UNCHANGED <<conversation, pc, exc>>
               [] OTHER ->
                    /\ pc' = "raised"
                    /\ exc' = ProviderError(ProviderOutcome)
                    /\ UNCHANGED <<conversation, attempt>>
    /\ UNCHANGED <<max_messages, profile_data, intervention_type, phase, reason,
                   result, script, rng, rng_pos>>

\* the ending check without the acknowledgment turn
CheckEndNoAck ==
    /\ pc = "check"
    /\ LET drawn == IF should_end_draws(Len(conversation), LastTwo(conversation))
                     THEN 1 ELSE 0
       IN \E d \in RandAt(0) :
          LET r == should_end(Len(conversation), LastTwo(conversation), d) IN
             /\ reason' = r[2]
             /\ rng_pos' = RngAfter(drawn)
             /\ IF r[1]
                THEN /\ pc' = "return"
                     /\ UNCHANGED <<attempt, call_attempts>>
                ELSE /\ pc' = "user_gen"
                     /\ attempt' = 0
                     /\ call_attempts' = 0
    /\ UNCHANGED <<max_messages, profile_data, intervention_type, phase, result,
                   exc, last_request_time, now, script, provider_calls, prompt, rng,
                   conversation>>

\* the ending check with the acknowledgment turn after every ending
CheckEndAckAlways ==
    /\ pc = "check"
    /\ LET drawn == IF should_end_draws(Len(conversation), LastTwo(conversation))
                     THEN 1 ELSE 0
       IN \E d \in RandAt(0), c \in ChoiceAt(drawn, Len(closings)) :
          LET r == should_end(Len(conversation), LastTwo(conversation), d) IN
             /\ reason' = r[2]
             /\ IF r[1]
                THEN /\ conversation' = Append(conversation, Turn("user", closings[c]))
                     /\ rng_pos' = RngAfter(drawn + 1)
                     /\ pc' = "return"
                     /\ UNCHANGED <<attempt, call_attempts>>
                ELSE /\ pc' = "user_gen"
                     /\ rng_pos' = RngAfter(drawn)
                     /\ attempt' = 0
                     /\ call_attempts' = 0
                     /\ UNCHANGED conversation
    /\ UNCHANGED <<max_messages, profile_data, intervention_type, phase, result,
                   exc, last_request_time, now, script, provider_calls, prompt, rng>>

\* lines 304-319: the ending check and the acknowledgment turn
CheckEnd ==
    /\ pc = "check"
    /\ LET drawn == IF should_end_draws(Len(conversation), LastTwo(conversation))
                     THEN 1 ELSE 0
       IN \E d \in RandAt(0), c \in ChoiceAt(drawn, Len(closings)) :
          LET r == should_end(Len(conversation), LastTwo(conversation), d) IN
             /\ reason' = r[2]
             /\ IF r[1]
                THEN /\ conversation' =
                          IF r[2] # "hard_limit"
                          THEN Append(conversation, Turn("user", closings[c]))
                          ELSE conversation
                     /\ rng_pos' = RngAfter(drawn + IF r[2] # "hard_limit" THEN 1 ELSE 0)
                     /\ pc' = "return"
                     /\ UNCHANGED <<attempt, call_attempts>>
                ELSE /\ pc' = "user_gen"
                     /\ rng_pos' = RngAfter(drawn)
                     /\ attempt' = 0
                     /\ call_attempts' = 0
                     /\ UNCHANGED conversation
    /\ UNCHANGED <<max_messages, profile_data, intervention_type, phase, result,
                   exc, last_request_time, now, script, provider_calls, prompt, rng>>

\* one attempt of _generate_user_response; on return, lines 328-332
UserAttempt ==
    /\ pc = "user_gen"
    /\ \E tp \in ChoiceAt(0, IF profile_data.typical_phrases = <<>> THEN 1
                               ELSE Len(profile_data.typical_phrases)) :
       LET step == UserAttemptStep(attempt, ProviderOutcome, phase, profile_data, tp) IN
          /\ rng_pos' = RngAfter(IF UserAttemptDraws(attempt, ProviderOutcome, profile_data)
                                 THEN 1 ELSE 0)
          /\ last_request_time' = AfterRateLimitWait
          /\ now' = AfterRateLimitWait + step.sleep * TicksPerSecond
          /\ provider_calls' = provider_calls + 1
          /\ prompt' = UserPrompt(conversation, phase)
          /\ call_attempts' = call_attempts + 1
          /\ CASE step.kind = "return" ->
                    /\ conversation' = Append(conversation, Turn("user", step.text))
                    /\ pc' = "loop"
                    /\ UNCHANGED <<attempt, exc>>
               [] step.kind = "retry" ->
                    /\ attempt' = attempt + 1
                    /\ UNCHANGED <<conversation, pc, exc>>
               [] OTHER ->
                    /\ pc' = "raised"
                    /\ exc' = ProviderError(ProviderOutcome)
                    /\ UNCHANGED <<conversation, attempt>>
    /\ UNCHANGED <<max_messages, profile_data, intervention_type, phase, reason,
                   result, script, rng>>

\* lines 334-346: the returned dictionary
Return ==
    /\ pc = "return"
    /\ result' = << [profile_id |-> profile_data.profile_id,
                     intervention |-> intervention_type,
                     total_messages |-> Len(conversation),
                     ending_reason |-> IF reason # "unbound" THEN reason
                                       ELSE "max_messages"] >>
    /\ pc' = "done"
    /\ UNCHANGED <<max_messages, profile_data, intervention_type, conversation,
                   phase, reason, attempt, call_attempts, exc, last_request_time,
                   now, script, provider_calls, prompt, rng, rng_pos>>

SimStep == Begin \/ LoopTest \/ AgentAttempt \/ CheckEnd \/ UserAttempt \/ Return

(***************************************************************************)
(* Specification of one simulate_conversation call                         *)
(***************************************************************************)
\* the ceilings a single call is checked with: the small ones, the ones
\* around the thresholds of should_end, the default and some above it
Ceilings == (0..5) \cup {19, 20, 23, DefaultMaxMessages, 25, MaxCeiling}

\* the (profile, intervention) pairs a single call is checked with
SimCases == { <<ProfileLeft, Interventions[1]>>,
              <<ProfileCenter, Interventions[2]>>,
              <<ProfileMalformed, Interventions[3]>> }

\* no caller uses the limiter directly
InactiveCallers ==
    /\ rl_callers = <<>>
    /\ rl_status = <<>>

InactiveExperiment ==
    /\ exp_pc = "off"
    /\ all_profiles = <<>>
    /\ test_mode = FALSE
    /\ specific_profiles = <<>>
    /\ combinations = <<>>
    /\ idx = 0
    /\ successful = <<>>
    /\ failed = <<>>
    /\ saved = <<>>
    /\ logs = <<>>
    /\ disk = "ok"
    /\ request_times = <<>>
    /\ daily_request_count = 0
    /\ daily_reset_time = StartTime
    /\ token_usage = <<>>
    /\ limits = DefaultLimits
    /\ admitted = 0
    /\ recorded = 0
    /\ InactiveCallers

\* no function is under evaluation and the process has not exited
InactiveAux ==
    /\ pf_in = <<>>
    /\ pf_out = <<>>
    /\ exit_status = -1

InactiveShouldEnd ==
    /\ se_in = <<>>
    /\ se_out = <<>>

SimInit(ceilings, scripts, cases) ==
    /\ pc = "start"
    /\ max_messages \in ceilings
    /\ script \in scripts
    /\ \E cs \in cases : profile_data = cs[1] /\ intervention_type = cs[2]
    /\ conversation = <<>>
    /\ phase = "unbound"
    /\ reason = "unbound"
    /\ attempt = 0
    /\ call_attempts = 0
    /\ result = <<>>
    /\ exc = NoException
    /\ last_request_time = 0
    /\ now = StartTime
    /\ provider_calls = 0
    /\ prompt = NoPrompt
    /\ rng = <<>>
    /\ rng_pos = 0

Init ==
    /\ \/ SimInit(Ceilings, Scripts, SimCases)
       \/ SimInit(0..5, Scripts, {<<ProfileRight, Interventions[3]>>})
    /\ InactiveShouldEnd
    /\ InactiveAux
    /\ InactiveExperiment

Next ==
    \/ Begin /\ UNCHANGED <<seVars, expVars, rlVars, limVars, auxVars>>
    \/ LoopTest /\ UNCHANGED <<seVars, expVars, rlVars, limVars, auxVars>>
    \/ AgentAttempt /\ UNCHANGED <<seVars, expVars, rlVars, limVars, auxVars>>
    \/ CheckEnd /\ UNCHANGED <<seVars, expVars, rlVars, limVars, auxVars>>
    \/ UserAttempt /\ UNCHANGED <<seVars, expVars, rlVars, limVars, auxVars>>
    \/ Return /\ UNCHANGED <<seVars, expVars, rlVars, limVars, auxVars>>

Spec == Init /\ [][Next]_vars

(***************************************************************************)
(* Specification of should_end as a function of its inputs                 *)
(***************************************************************************)
\* texts the most recent turn is drawn from, each with whether Python's
\* any(phrase in text ...) holds for the Hebrew original
SampleTexts ==
    { <<ending_phrases[k], TRUE>> : k \in 1..Len(ending_phrases) }
    \cup { <<Strip(OkPlain.text), FALSE>>,
           <<Strip(OkEmbedded.text), TRUE>>,
           <<OkNearMiss.text, FALSE>>,
           <<<<"haya">>, FALSE>>,
           <<<<"nesayem", "bo">>, FALSE>>,
           <<<<"naskim", "shelo">>, FALSE>>,
           <<<<>>, FALSE>>,
           <<_get_fallback_response("closure", "agent"), TRUE>>,
           <<_get_fallback_response("final", "agent"), FALSE>>,
           <<closings[4], TRUE>> }

\* the lists last_messages the function is applied to: the empty list and
\* two-turn tails whose older turn does or does not carry a closing phrase
SampleTails ==
    { [msgs |-> <<>>, last_has_phrase |-> FALSE] }
    \cup { [msgs |-> <<Turn("user", prev), Turn("assistant", st[1])>>,
            last_has_phrase |-> st[2]] :
           st \in SampleTexts, prev \in {closings[1], closings[3]} }

ShouldEndInit ==
    /\ se_in \in { [message_count |-> n, tail |-> t, draw |-> d] :
                   n \in 0..MaxCeiling, t \in SampleTails, d \in Draws }
    /\ se_out = <<>>
    /\ InactiveAux
    /\ pc = "off"
    /\ max_messages = DefaultMaxMessages
    /\ script = <<OkPlain>>
    /\ profile_data = ProfileCenter
    /\ intervention_type = Interventions[1]
    /\ conversation = <<>>
    /\ phase = "unbound"
    /\ reason = "unbound"
    /\ attempt = 0
    /\ call_attempts = 0
    /\ result = <<>>
    /\ exc = NoException
    /\ last_request_time = 0
    /\ now = StartTime
    /\ provider_calls = 0
    /\ prompt = NoPrompt
    /\ rng = <<>>
    /\ rng_pos = 0
    /\ InactiveExperiment

ApplyShouldEnd ==
    /\ se_out = <<>>
    /\ se_out' = << should_end(se_in.message_count, se_in.tail.msgs, se_in.draw) >>
    /\ UNCHANGED <<se_in, simVars, expVars, rlVars, limVars, auxVars>>

SpecShouldEnd == ShouldEndInit /\ [][ApplyShouldEnd]_vars

(***************************************************************************)
(* GeminiRateLimiter.  The clock counts ticks, TicksPerSecond to the        *)
(* second, so a wait can have a fraction of a second, which int() cuts off.*)
(***************************************************************************)
\* str.lower(), word by word
LowerWord(w) ==
    CASE w = "Rate" -> "rate"
      [] w = "Daily" -> "daily"
      [] w = "Token" -> "token"
      [] w = "OK" -> "ok"
      [] w = "No" -> "no"
      [] w = "[Errno" -> "[errno"
      [] w = "RESOURCE_EXHAUSTED" -> "resource_exhausted"
      [] w = "INTERNAL" -> "internal"
      [] OTHER -> w

Lower(t) == [i \in 1..Len(t) |-> LowerWord(t[i])]

\* the messages of can_make_request: their words, "#" standing for the
\* number num and "#2" for the number num2
OkMessage == [words |-> <<"OK">>, num |-> 0, num2 |-> 0]
DailyLimitMessage ==
    [words |-> <<"Daily", "limit", "reached", "(", "#", "requests", ")">>,
     num |-> limits.requests_per_day, num2 |-> 0]
\* line 52: wait_time is in ticks, and int(wait_time) is its whole seconds,
\* the fraction cut off
WaitMessage(wait_time) ==
    [words |-> <<"Rate", "limit", ":", "wait", "#", "seconds">>,
     num |-> IF wait_time >= 0 THEN wait_time \div TicksPerSecond
             ELSE 0 - ((0 - wait_time) \div TicksPerSecond),
     num2 |-> 0]
TokenLimitMessage(total) ==
    [words |-> <<"Token", "limit", "would", "be", "exceeded", "(", "#", ">",
                 "#2", ")">>,
     num |-> total, num2 |-> limits.tokens_per_minute]

\* lines 36-39: the daily counter and reset time after the lazy reset
DailyAfterReset ==
    IF now - daily_reset_time > DaySeconds * TicksPerSecond
    THEN [count |-> 0, reset |-> now]
    ELSE [count |-> daily_request_count, reset |-> daily_reset_time]

\* every logged request counted, whatever its age
RecentRequests_Unwindowed == request_times

\* line 48
RecentRequests == SelectSeq(request_times, LAMBDA t : t > now - WindowSeconds * TicksPerSecond)

RECURSIVE SumTokens(_)
SumTokens(entries) ==
    IF entries = <<>> THEN 0 ELSE Head(entries).tokens + SumTokens(Tail(entries))

\* lines 55-58
RecentTokens ==
    SumTokens(SelectSeq(token_usage, LAMBDA e : e.time > now - WindowSeconds * TicksPerSecond))

\* can_make_request with the per-minute checks ahead of the daily check
can_make_request_MinuteFirst(estimated_tokens) ==
    IF Len(RecentRequests) >= limits.requests_per_minute
    THEN [allowed |-> FALSE,
          message |-> WaitMessage(WindowSeconds * TicksPerSecond - (now - RecentRequests[1]))]
    ELSE IF RecentTokens + estimated_tokens > limits.tokens_per_minute
         THEN [allowed |-> FALSE,
               message |-> TokenLimitMessage(RecentTokens + estimated_tokens)]
    ELSE IF DailyAfterReset.count >= limits.requests_per_day
         THEN [allowed |-> FALSE, message |-> DailyLimitMessage]
    ELSE [allowed |-> TRUE, message |-> OkMessage]

\* can_make_request refusing only above the per-minute ceiling
can_make_request_AboveCeiling(estimated_tokens) ==
    IF DailyAfterReset.count >= limits.requests_per_day
    THEN [allowed |-> FALSE, message |-> DailyLimitMessage]
    ELSE IF Len(RecentRequests) > limits.requests_per_minute
         THEN [allowed |-> FALSE,
               message |-> WaitMessage(WindowSeconds * TicksPerSecond - (now - RecentRequests[1]))]
    ELSE IF RecentTokens + estimated_tokens > limits.tokens_per_minute
         THEN [allowed |-> FALSE,
               message |-> TokenLimitMessage(RecentTokens + estimated_tokens)]
    ELSE [allowed |-> TRUE, message |-> OkMessage]

\* the pair returned by can_make_request, after the lazy daily reset
can_make_request(estimated_tokens) ==
    IF DailyAfterReset.count >= limits.requests_per_day
    THEN [allowed |-> FALSE, message |-> DailyLimitMessage]
    ELSE IF Len(RecentRequests) >= limits.requests_per_minute
         THEN [allowed |-> FALSE,
               message |-> WaitMessage(WindowSeconds * TicksPerSecond - (now - RecentRequests[1]))]
    ELSE IF RecentTokens + estimated_tokens > limits.tokens_per_minute
         THEN [allowed |-> FALSE,
               message |-> TokenLimitMessage(RecentTokens + estimated_tokens)]
    ELSE [allowed |-> TRUE, message |-> OkMessage]

\* line 85
RateLimitError(message) ==
    [type |-> "Exception",
     msg |-> <<"Rate", "limit", "error", ":">> \o message.words]

\* lines 75-78: the digits between "wait" and "seconds" of the message, or
\* the default when there are none
wait_seconds(message) ==
    LET w == message.words
        after == {i \in 1..Len(w) : \E j \in 1..(i - 1) : w[j] = "wait"}
        upto == {i \in after : \A j \in after : (j <= i) => w[j] # "seconds"}
    IN  IF \E i \in upto : w[i] = "#"
        THEN (IF message.num < 0 THEN -message.num ELSE message.num)
        ELSE DefaultWait

\* one turn of the loop of wait_if_needed that sleeps on every refusal
wait_if_needed_SleepAlways(estimated_tokens) ==
    LET r == can_make_request(estimated_tokens) IN
    IF r.allowed
    THEN [kind |-> "return", sleep |-> 0, exc |-> NoException]
    ELSE [kind |-> "sleep", sleep |-> wait_seconds(r.message) + WaitBuffer,
          exc |-> NoException]

\* one turn of the loop of wait_if_needed that sleeps the seconds of the
\* message and no more
wait_if_needed_NoBuffer(estimated_tokens) ==
    LET r == can_make_request(estimated_tokens) IN
    IF r.allowed
    THEN [kind |-> "return", sleep |-> 0, exc |-> NoException]
    ELSE IF Contains(<<"wait">>, Lower(r.message.words))
         THEN [kind |-> "sleep", sleep |-> wait_seconds(r.message),
               exc |-> NoException]
         ELSE [kind |-> "raise", sleep |-> 0, exc |-> RateLimitError(r.message)]

\* lines 67-85, one turn of the loop of wait_if_needed: it returns, sleeps
\* before the next turn, or raises
wait_if_needed(estimated_tokens) ==
    LET r == can_make_request(estimated_tokens) IN
    IF r.allowed
    THEN [kind |-> "return", sleep |-> 0, exc |-> NoException]
    ELSE IF Contains(<<"wait">>, Lower(r.message.words))
         THEN [kind |-> "sleep", sleep |-> wait_seconds(r.message) + WaitBuffer,
               exc |-> NoException]
         ELSE [kind |-> "raise", sleep |-> 0, exc |-> RateLimitError(r.message)]

\* deque(maxlen=100).append
DequeAppend(q, x) ==
    IF Len(q) >= DequeMaxLen THEN Append(Tail(q), x) ELSE Append(q, x)

\* record_request starting the daily count anew once a day has passed
record_request_Rollover(tokens_used) ==
    /\ request_times' = DequeAppend(request_times, now)
    /\ daily_request_count' = DailyAfterReset.count + 1
    /\ token_usage' = DequeAppend(token_usage, [time |-> now, tokens |-> tokens_used])
    /\ recorded' = recorded + 1

\* lines 87-99
record_request(tokens_used) ==
    /\ request_times' = DequeAppend(request_times, now)
    /\ daily_request_count' = daily_request_count + 1
    /\ token_usage' = DequeAppend(token_usage, [time |-> now, tokens |-> tokens_used])
    /\ recorded' = recorded + 1

\* lines 107-124: the dictionary get_status returns.  The counts are taken
\* at the clock reading of line 107 and the daily counter is read at line
\* 117, before line 123 calls can_make_request, which reads the clock anew
\* (line 34): its answer is the one given at that later reading, now'
get_status ==
    [daily_requests_used |-> daily_request_count,
     daily_requests_limit |-> limits.requests_per_day,
     recent_requests_per_minute |-> Len(RecentRequests),
     requests_per_minute_limit |-> limits.requests_per_minute,
     recent_tokens_per_minute |-> RecentTokens,
     tokens_per_minute_limit |-> limits.tokens_per_minute,
     can_make_request |-> (can_make_request(DefaultEstimate).allowed)']

(***************************************************************************)
(* ExperimentController.run_experiment                                     *)
(***************************************************************************)
DiskError ==
    [type |-> "OSError",
     msg |-> <<"[Errno", "28]", "No", "space", "left", "on", "device">>]

\* the stances of the test-mode selection, as words
TestStances == << <<"left">>, <<"center", "left">>, <<"center">> >>

ProfileIds(ps) == {ps[i].profile_id : i \in 1..Len(ps)}

\* lines 60-66: the first profile of each stance, in a dictionary
RECURSIVE TestModeProfiles(_, _)
TestModeProfiles(k, acc) ==
    IF k > Len(TestStances) THEN acc
    ELSE LET stance_profiles ==
                 SelectSeq(all_profiles,
                           LAMBDA p : Contains(TestStances[k], p.profile_id))
         IN  IF stance_profiles = <<>>
                \/ stance_profiles[1].profile_id \in ProfileIds(acc)
             THEN TestModeProfiles(k + 1, acc)
             ELSE TestModeProfiles(k + 1, Append(acc, stance_profiles[1]))

\* lines 55-68
profiles_to_use ==
    IF specific_profiles # <<>>
    THEN SelectSeq(all_profiles,
                   LAMBDA p : \E i \in 1..Len(specific_profiles) :
                                  specific_profiles[i] = p.profile_id)
    ELSE IF test_mode THEN TestModeProfiles(1, <<>>)
    ELSE all_profiles

\* itertools.product(profiles, interventions)
Product(ps) ==
    [k \in 1..(Len(ps) * Len(Interventions)) |->
        << ps[((k - 1) \div Len(Interventions)) + 1],
           Interventions[((k - 1) % Len(Interventions)) + 1] >>]

Swap(x, i, j) == [x EXCEPT ![i] = x[j], ![j] = x[i]]

\* random.shuffle: for i from the last index down to the second, swap x[i]
\* with x[j], j drawn from the indices up to i; k draws were made before
RECURSIVE ShuffleFrom(_, _, _)
ShuffleFrom(x, i, k) ==
    IF i < 2 THEN {x}
    ELSE UNION { ShuffleFrom(Swap(x, i, j), i - 1, k + 1) : j \in ChoiceAt(k, i) }

ShuffleOutcomes(x) == ShuffleFrom(x, Len(x), 0)

ShuffleDraws(x) == IF Len(x) < 2 THEN 0 ELSE Len(x) - 1

Truncate(x, n) == SubSeq(x, 1, IF Len(x) < n THEN Len(x) ELSE n)

\* the `for` loop moves to the next combination or leaves the loop
AfterCombination ==
    /\ idx' = idx + 1
    /\ exp_pc' = IF idx < Len(combinations) THEN "admit" ELSE "finish"

\* the setup that truncates the shuffled list in every mode
ExpSetupAlwaysTruncate ==
    /\ exp_pc = "setup"
    /\ \E shuffled \in ShuffleOutcomes(Product(profiles_to_use)) :
          combinations' = Truncate(shuffled, TestModeLimit)
    /\ rng_pos' = RngAfter(ShuffleDraws(Product(profiles_to_use)))
    /\ idx' = 1
    /\ successful' = <<>>
    /\ failed' = <<>>
    /\ exp_pc' = IF profiles_to_use = <<>> THEN "finish" ELSE "admit"
    /\ UNCHANGED <<all_profiles, test_mode, specific_profiles, saved, logs, disk>>
    /\ UNCHANGED <<pc, max_messages, profile_data, intervention_type, conversation,
                   phase, reason, attempt, call_attempts, result, exc,
                   last_request_time, now, script, provider_calls, prompt, rng>>
    /\ UNCHANGED <<seVars, rlVars, limVars, auxVars>>

\* lines 52-97
ExpSetup ==
    /\ exp_pc = "setup"
    /\ \E shuffled \in ShuffleOutcomes(Product(profiles_to_use)) :
          combinations' = IF test_mode THEN Truncate(shuffled, TestModeLimit)
                          ELSE shuffled
    /\ rng_pos' = RngAfter(ShuffleDraws(Product(profiles_to_use)))
    /\ idx' = 1
    /\ successful' = <<>>
    /\ failed' = <<>>
    /\ exp_pc' = IF profiles_to_use = <<>> THEN "finish" ELSE "admit"
    /\ UNCHANGED <<all_profiles, test_mode, specific_profiles, saved, logs, disk>>
    /\ UNCHANGED <<pc, max_messages, profile_data, intervention_type, conversation,
                   phase, reason, attempt, call_attempts, result, exc,
                   last_request_time, now, script, provider_calls, prompt, rng>>
    /\ UNCHANGED <<seVars, rlVars, limVars, auxVars>>

\* line 108: one turn of the loop of wait_if_needed(2000); when the request
\* is admitted, line 111 enters simulate_conversation
ExpAdmit ==
    /\ exp_pc = "admit"
    /\ LET w == wait_if_needed(EstimatedTokens) IN
          /\ daily_request_count' = DailyAfterReset.count
          /\ daily_reset_time' = DailyAfterReset.reset
          /\ IF w.kind = "return"
             THEN /\ exp_pc' = "simulate"
                  /\ admitted' = admitted + 1
                  /\ pc' = "start"
                  /\ max_messages' = DefaultMaxMessages
                  /\ profile_data' = combinations[idx][1]
                  /\ intervention_type' = combinations[idx][2]
                  /\ conversation' = <<>>
                  /\ phase' = "unbound"
                  /\ reason' = "unbound"
                  /\ attempt' = 0
                  /\ call_attempts' = 0
                  /\ result' = <<>>
                  /\ exc' = NoException
                  /\ UNCHANGED now
             ELSE IF w.kind = "sleep"
             THEN /\ now' = now + w.sleep * TicksPerSecond
                  /\ UNCHANGED <<exp_pc, pc, max_messages, profile_data,
                                 intervention_type, conversation, phase, reason,
                                 attempt, call_attempts, result, exc, admitted>>
             ELSE /\ exc' = w.exc
                  /\ exp_pc' = "except"
                  /\ UNCHANGED <<pc, max_messages, profile_data, intervention_type,
                                 conversation, phase, reason, attempt,
                                 call_attempts, result, now, admitted>>
    /\ UNCHANGED <<all_profiles, test_mode, specific_profiles, combinations, idx,
                   successful, failed, saved, logs, disk>>
    /\ UNCHANGED <<last_request_time, script, provider_calls, prompt, rng, rng_pos>>
    /\ UNCHANGED <<seVars, request_times, token_usage, limits, recorded, limVars, auxVars>>

\* an exception leaves simulate_conversation and reaches line 143
ExpSimRaised ==
    /\ exp_pc = "simulate"
    /\ pc = "raised"
    /\ exp_pc' = "except"
    /\ UNCHANGED <<all_profiles, test_mode, specific_profiles, combinations, idx,
                   successful, failed, saved, logs, disk>>
    /\ UNCHANGED <<simVars, seVars, rlVars, limVars, auxVars>>

\* the success path without the write of the conversation file
ExpSaveSkipped ==
    /\ exp_pc = "simulate"
    /\ pc = "done"
    /\ IF disk = "ok"
       THEN /\ saved' = saved
            /\ exp_pc' = "record"
            /\ UNCHANGED exc
       ELSE /\ exc' = DiskError
            /\ exp_pc' = "except"
            /\ UNCHANGED saved
    /\ UNCHANGED <<all_profiles, test_mode, specific_profiles, combinations, idx,
                   successful, failed, logs, disk>>
    /\ UNCHANGED <<pc, max_messages, profile_data, intervention_type, conversation,
                   phase, reason, attempt, call_attempts, result,
                   last_request_time, now, script, provider_calls, prompt, rng, rng_pos>>
    /\ UNCHANGED <<seVars, rlVars, limVars, auxVars>>

\* lines 117-120: save_conversation writes the file or raises
ExpSave ==
    /\ exp_pc = "simulate"
    /\ pc = "done"
    /\ IF disk = "ok"
       THEN /\ saved' = Append(saved, [profile_id |-> result[1].profile_id,
                                       intervention |-> result[1].intervention,
                                       total_messages |-> result[1].total_messages])
            /\ exp_pc' = "record"
            /\ UNCHANGED exc
       ELSE /\ exc' = DiskError
            /\ exp_pc' = "except"
            /\ UNCHANGED saved
    /\ UNCHANGED <<all_profiles, test_mode, specific_profiles, combinations, idx,
                   successful, failed, logs, disk>>
    /\ UNCHANGED <<pc, max_messages, profile_data, intervention_type, conversation,
                   phase, reason, attempt, call_attempts, result,
                   last_request_time, now, script, provider_calls, prompt, rng, rng_pos>>
    /\ UNCHANGED <<seVars, rlVars, limVars, auxVars>>

\* lines 122-141: the success record, record_request(2000) and the pause
ExpRecord ==
    /\ exp_pc = "record"
    /\ successful' = Append(successful,
                            [profile_id |-> combinations[idx][1].profile_id,
                             intervention |-> combinations[idx][2],
                             message_count |-> Len(conversation),
                             file_path |-> Len(saved)])
    /\ record_request(TokensUsed)
    /\ now' = IF idx < Len(combinations)
              THEN (IF idx % PauseEvery = 0 THEN now + LongPause * TicksPerSecond
                    ELSE now + InterConversationDelay * TicksPerSecond)
              ELSE now
    /\ AfterCombination
    /\ UNCHANGED <<all_profiles, test_mode, specific_profiles, combinations,
                   failed, saved, logs, disk, daily_reset_time>>
    /\ UNCHANGED <<pc, max_messages, profile_data, intervention_type, conversation,
                   phase, reason, attempt, call_attempts, result, exc,
                   last_request_time, script, provider_calls, prompt, rng, rng_pos>>
    /\ UNCHANGED <<seVars, limits, admitted, limVars, auxVars>>

\* a checkpoint at the third failure only
checkpoint_due_Exactly(n) == n = CheckpointFailures

\* line 154
checkpoint_due(n) == n >= CheckpointFailures

\* lines 143-161: the failure record, the checkpoint and the cooldown
ExpExcept ==
    /\ exp_pc = "except"
    /\ failed' = Append(failed, [profile_id |-> combinations[idx][1].profile_id,
                                 intervention |-> combinations[idx][2],
                                 error |-> exc])
    /\ IF checkpoint_due(Len(failed')) /\ disk = "full"
       THEN \* _save_experiment_log raises inside the handler
            /\ exc' = DiskError
            /\ exp_pc' = "aborted"
            /\ UNCHANGED <<logs, now, idx>>
       ELSE /\ logs' = IF checkpoint_due(Len(failed'))
                       THEN Append(logs, [successful |-> Len(successful),
                                          failed |-> Len(failed'),
                                          final |-> FALSE])
                       ELSE logs
            /\ now' = IF Contains(<<"rate", "limit">>, Lower(exc.msg))
                      THEN now + RateLimitCooldown * TicksPerSecond ELSE now
            /\ AfterCombination
            /\ UNCHANGED exc
    /\ UNCHANGED <<all_profiles, test_mode, specific_profiles, combinations,
                   successful, saved, disk>>
    /\ UNCHANGED <<pc, max_messages, profile_data, intervention_type, conversation,
                   phase, reason, attempt, call_attempts, result,
                   last_request_time, script, provider_calls, prompt, rng, rng_pos>>
    /\ UNCHANGED <<seVars, rlVars, limVars, auxVars>>

\* lines 163-174: the final log and the return
ExpFinish ==
    /\ exp_pc = "finish"
    /\ IF disk = "full"
       THEN /\ exc' = DiskError
            /\ exp_pc' = "aborted"
            /\ UNCHANGED logs
       ELSE /\ logs' = Append(logs, [successful |-> Len(successful),
                                     failed |-> Len(failed),
                                     final |-> TRUE])
            /\ exp_pc' = "done"
            /\ UNCHANGED exc
    /\ UNCHANGED <<all_profiles, test_mode, specific_profiles, combinations, idx,
                   successful, failed, saved, disk>>
    /\ UNCHANGED <<pc, max_messages, profile_data, intervention_type, conversation,
                   phase, reason, attempt, call_attempts, result,
                   last_request_time, now, script, provider_calls, prompt, rng, rng_pos>>
    /\ UNCHANGED <<seVars, rlVars, limVars, auxVars>>

\* the stubs, random sources and environments run_experiment is checked with
ExpScripts == { <<OkPlain, QuotaErr>>, <<OkPlain>>, <<QuotaErr>>,
                <<OtherErr, OkPhrase(1)>> }
ExpRngs == { <<9>>, <<0, 3>> }
ExpProfileLists == { <<>>, <<ProfileLeft>>, <<ProfileLeft, ProfileMalformed>>,
                     <<ProfileCenterLeft, ProfileLeft, ProfileCenter>> }

ExpInitWith(profileLists, tests, specifics, scripts, rngs, disks, dailies) ==
    /\ exp_pc = "setup"
    /\ all_profiles \in profileLists
    /\ test_mode \in tests
    /\ specific_profiles \in specifics
    /\ script \in scripts
    /\ rng \in rngs
    /\ disk \in disks
    /\ daily_request_count \in dailies
    /\ combinations = <<>>
    /\ idx = 0
    /\ successful = <<>>
    /\ failed = <<>>
    /\ saved = <<>>
    /\ logs = <<>>
    /\ request_times = <<>>
    /\ daily_reset_time = StartTime
    /\ token_usage = <<>>
    /\ limits = DefaultLimits
    /\ admitted = 0
    /\ recorded = 0
    /\ InactiveCallers
    /\ pc = "off"
    /\ max_messages = DefaultMaxMessages
    /\ profile_data = ProfileCenter
    /\ intervention_type = Interventions[1]
    /\ conversation = <<>>
    /\ phase = "unbound"
    /\ reason = "unbound"
    /\ attempt = 0
    /\ call_attempts = 0
    /\ result = <<>>
    /\ exc = NoException
    /\ last_request_time = 0
    /\ now = StartTime
    /\ provider_calls = 0
    /\ prompt = NoPrompt
    /\ rng_pos = 0
    /\ InactiveShouldEnd
    /\ InactiveAux

ExpInit ==
    \* three well-formed profiles, every second provider call fails
    \/ ExpInitWith({<<ProfileLeft, ProfileCenter, ProfileRight>>}, {FALSE}, {<<>>},
                   {<<OkPlain, QuotaErr>>, <<QuotaErr, OkPlain>>},
                   {<<9>>, <<0, 3>>, <<2, 7, 5>>}, {"ok"}, {0})
    \* the other stubs, profile sets, disks and states of the limiter
    \/ ExpInitWith(ExpProfileLists, BOOLEAN, {<<>>}, ExpScripts, ExpRngs,
                   {"ok", "conversations_unwritable", "full"},
                   {0, requests_per_day - 1, requests_per_day})
    \* an explicit selection of profiles
    \/ ExpInitWith({<<ProfileLeft, ProfileCenter, ProfileRight>>}, BOOLEAN,
                   {<< <<"center", "1">> >>, << <<"nobody">> >>},
                   {<<OkPlain>>}, ExpRngs, {"ok"}, {0})
    \* any random outcome, one profile
    \/ ExpInitWith({<<ProfileLeft>>}, {FALSE}, {<<>>}, {<<OkPlain>>}, {<<>>},
                   {"ok"}, {0})

\* run_experiment.py lines 97-123: main after run_experiment returned or
\* raised; an exception exits with status 1, a return leaves main normally
ExpMainExit ==
    /\ exp_pc \in {"done", "aborted"}
    /\ exit_status = -1
    /\ exit_status' = IF exp_pc = "aborted" THEN 1 ELSE 0
    /\ UNCHANGED <<pf_in, pf_out, simVars, seVars, expVars, rlVars, limVars>>

ExpNext ==
    \/ ExpSetup
    \/ ExpAdmit
    \/ exp_pc = "simulate" /\ Begin /\ UNCHANGED <<seVars, expVars, rlVars, limVars, auxVars>>
    \/ exp_pc = "simulate" /\ LoopTest /\ UNCHANGED <<seVars, expVars, rlVars, limVars, auxVars>>
    \/ exp_pc = "simulate" /\ AgentAttempt /\ UNCHANGED <<seVars, expVars, rlVars, limVars, auxVars>>
    \/ exp_pc = "simulate" /\ CheckEnd /\ UNCHANGED <<seVars, expVars, rlVars, limVars, auxVars>>
    \/ exp_pc = "simulate" /\ UserAttempt /\ UNCHANGED <<seVars, expVars, rlVars, limVars, auxVars>>
    \/ exp_pc = "simulate" /\ Return /\ UNCHANGED <<seVars, expVars, rlVars, limVars, auxVars>>
    \/ ExpSimRaised
    \/ ExpSave
    \/ ExpRecord
    \/ ExpExcept
    \/ ExpFinish
    \/ ExpMainExit

SpecExperiment == ExpInit /\ [][ExpNext]_vars

(***************************************************************************)
(* GeminiRateLimiter used by one thread, as run_experiment uses it.  The    *)
(* caller calls wait_if_needed whenever it is not inside it: at first,     *)
(* after record_request, after an admission it did not record (the         *)
(* request failed) and after wait_if_needed raised.  It calls              *)
(* record_request only after wait_if_needed has returned, and get_status   *)
(* between two calls.  The time it spends between calls is the clock's.    *)
(* With one thread every call runs from its first line to its last with    *)
(* nothing in between, so a call is one step.                              *)
(***************************************************************************)
Callers == {"a", "b"}

\* the ceilings the limiter is checked with: those of __init__, a ceiling
\* of one request per minute, and small ceilings on all three quotas
LimiterConfigs ==
    { DefaultLimits,
      [DefaultLimits EXCEPT !.requests_per_minute = 1],
      [requests_per_minute |-> 2, requests_per_day |-> 3,
       tokens_per_minute |-> EstimatedTokens] }

\* the instants of the clock, as offsets from the start
Instants ==
    {0, 1, WindowSeconds * TicksPerSecond, (WindowSeconds + 1) * TicksPerSecond,
     DaySeconds * TicksPerSecond + 1}

IdleCaller == [pc |-> "idle", est |-> 0, wake |-> 0, exc |-> NoException]

\* the limiter after __init__ and some use, and nothing else running
LimiterInitWith(configs, callers) ==
    /\ limits \in configs
    /\ daily_request_count \in
           {0, limits.requests_per_day - 1, limits.requests_per_day}
    /\ request_times = <<>>
    /\ token_usage = <<>>
    /\ daily_reset_time = StartTime
    /\ admitted = 0
    /\ recorded = 0
    /\ rl_callers = callers
    /\ rl_status = <<>>
    /\ now = StartTime
    /\ pc = "off"
    /\ max_messages = DefaultMaxMessages
    /\ script = <<OkPlain>>
    /\ profile_data = ProfileCenter
    /\ intervention_type = Interventions[1]
    /\ conversation = <<>>
    /\ phase = "unbound"
    /\ reason = "unbound"
    /\ attempt = 0
    /\ call_attempts = 0
    /\ result = <<>>
    /\ exc = NoException
    /\ last_request_time = 0
    /\ provider_calls = 0
    /\ prompt = NoPrompt
    /\ rng = <<>>
    /\ rng_pos = 0
    /\ InactiveShouldEnd
    /\ InactiveAux
    /\ exp_pc = "off"
    /\ all_profiles = <<>>
    /\ test_mode = FALSE
    /\ specific_profiles = <<>>
    /\ combinations = <<>>
    /\ idx = 0
    /\ successful = <<>>
    /\ failed = <<>>
    /\ saved = <<>>
    /\ logs = <<>>
    /\ disk = "ok"

LimiterInit == LimiterInitWith(LimiterConfigs, [c \in Callers |-> IdleCaller])

LimFrame ==
    UNCHANGED <<pc, max_messages, profile_data, intervention_type, conversation,
                phase, reason, attempt, call_attempts, result, exc,
                last_request_time, script, provider_calls, prompt, rng, rng_pos,
                seVars, expVars, limits, auxVars>>

\* the estimate each caller passes: the default of the limiter and the
\* one run_experiment passes
EstimateOf(c) == IF c = "a" THEN DefaultEstimate ELSE EstimatedTokens

\* a caller enters wait_if_needed(estimated_tokens): for the first time or
\* after record_request ("idle"), with its last admission unrecorded
\* ("admitted"), or after its last call raised ("raised")
LimCall(c) ==
    /\ rl_callers[c].pc \in {"idle", "admitted", "raised"}
    /\ admitted < MaxAdmits
    /\ rl_callers' = [rl_callers EXCEPT ![c].pc = "checking",
                                        ![c].est = EstimateOf(c),
                                        ![c].wake = 0,
                                        ![c].exc = NoException]
    /\ rl_status' = <<>>
    /\ UNCHANGED <<now, request_times, daily_request_count, daily_reset_time,
                   token_usage, admitted, recorded>>
    /\ LimFrame

\* lines 67-85: one turn of the loop of wait_if_needed; wake is the time
\* the last sleep of the call ends, 0 while the call has not slept
LimCheck(c) ==
    /\ rl_callers[c].pc = "checking"
    /\ LET w == wait_if_needed(rl_callers[c].est) IN
          /\ daily_request_count' = DailyAfterReset.count
          /\ daily_reset_time' = DailyAfterReset.reset
          /\ admitted' = IF w.kind = "return" THEN admitted + 1 ELSE admitted
          /\ rl_callers' = [rl_callers EXCEPT
                  ![c].pc = CASE w.kind = "return" -> "admitted"
                              [] w.kind = "sleep" -> "sleeping"
                              [] OTHER -> "raised",
                  ![c].wake = IF w.kind = "sleep" THEN now + w.sleep * TicksPerSecond
                           ELSE rl_callers[c].wake,
                  ![c].exc = w.exc]
    /\ rl_status' = <<>>
    /\ UNCHANGED <<now, request_times, token_usage, recorded>>
    /\ LimFrame

\* line 82: time.sleep returns once the time slept has passed, which is
\* at the wake-up time when the clock has not got there yet
LimWake(c) ==
    /\ rl_callers[c].pc = "sleeping"
    /\ now' = IF now >= rl_callers[c].wake THEN now ELSE rl_callers[c].wake
    /\ rl_callers' = [rl_callers EXCEPT ![c].pc = "checking"]
    /\ rl_status' = <<>>
    /\ UNCHANGED rlVars
    /\ LimFrame

\* the admitted caller calls record_request with its estimate
LimRecord(c) ==
    /\ rl_callers[c].pc = "admitted"
    /\ record_request(rl_callers[c].est)
    /\ rl_callers' = [rl_callers EXCEPT ![c].pc = "idle"]
    /\ rl_status' = <<>>
    /\ UNCHANGED <<now, daily_reset_time, admitted>>
    /\ LimFrame

\* lines 105-124: the clock is read at line 107 and again at line 34 of
\* the can_make_request called from line 123, at the same instant or a
\* later one; the lazy reset of lines 37-39 is made at the second reading
LimGetStatus ==
    /\ rl_status = <<>>
    /\ \E t \in {now} \cup {StartTime + o : o \in Instants} :
           t >= now /\ now' = t
    /\ daily_request_count' =
           IF now' - daily_reset_time > DaySeconds * TicksPerSecond THEN 0 ELSE daily_request_count
    /\ daily_reset_time' =
           IF now' - daily_reset_time > DaySeconds * TicksPerSecond THEN now' ELSE daily_reset_time
    /\ UNCHANGED <<request_times, token_usage, admitted, recorded, rl_callers>>
    /\ LimFrame
    /\ rl_status' = <<get_status>>

\* the clock moves on
LimAdvance ==
    /\ \E o \in Instants : StartTime + o > now /\ now' = StartTime + o
    /\ rl_status' = <<>>
    /\ UNCHANGED <<rlVars, rl_callers>>
    /\ LimFrame

\* the one caller: run_experiment, which passes 2000 tokens to both calls
TheCaller == "b"

SingleCallerNext ==
    \/ LimCall(TheCaller)
    \/ LimCheck(TheCaller)
    \/ LimWake(TheCaller)
    \/ LimRecord(TheCaller)
    \/ (\* get_status is called when the caller is not inside wait_if_needed
        /\ rl_callers[TheCaller].pc \in {"idle", "admitted", "raised"}
        /\ LimGetStatus)
    \/ LimAdvance

SpecSingleCaller == LimiterInit /\ [][SingleCallerNext]_vars

\* the loop of wait_if_needed runs on: its check and the return of its
\* sleep are steps of the caller's own thread
SpecSingleCallerLive ==
    /\ SpecSingleCaller
    /\ WF_vars(LimCheck(TheCaller))
    /\ WF_vars(LimWake(TheCaller))

(***************************************************************************)
(* GeminiRateLimiter shared by threads without a lock: two callers, each   *)
(* running wait_if_needed and then record_request, and a thread calling    *)
(* get_status.  The interpreter may switch threads between any two lines   *)
(* and inside the iteration of a deque, so a step is one line's access to  *)
(* the limiter; the program counter of a thread names the line it is at.   *)
(* Each caller makes one request; the status thread calls again and again. *)
(***************************************************************************)
StatusThread == "s"

\* the ceilings the shared limiter is checked with: those of __init__, a
\* ceiling of one request per minute, and small ceilings on all three
ThreadConfigs ==
    { DefaultLimits,
      [DefaultLimits EXCEPT !.requests_per_minute = 1],
      [requests_per_minute |-> 2, requests_per_day |-> 3,
       tokens_per_minute |-> EstimatedTokens] }

\* a thread outside every call; t is the local `now` of the running call,
\* seen the deque as it was when its iteration began, rcount, tokens and
\* used the values get_status has taken so far
IdleThread ==
    [pc |-> "idle", est |-> 0, wake |-> 0, exc |-> NoException,
     t |-> 0, seen |-> <<>>, rcount |-> 0, tokens |-> 0, used |-> 0]

ThreadsInit == LimiterInitWith(ThreadConfigs, [th \in Callers \cup {StatusThread} |-> IdleThread])

\* RuntimeError raised by the iterator of a deque that was appended to
\* during the iteration
DequeMutatedError ==
    [type |-> "RuntimeError",
     msg |-> <<"deque", "mutated", "during", "iteration">>]

\* line 48, line 110: the logged times later than one minute before t
RecentOf(times, t) == SelectSeq(times, LAMBDA x : x > t - WindowSeconds * TicksPerSecond)

\* lines 55-58, lines 111-114: the tokens logged later than one minute before t
TokensOf(entries, t) ==
    SumTokens(SelectSeq(entries, LAMBDA e : e.time > t - WindowSeconds * TicksPerSecond))

\* the clock moves on while threads run: past the window of one minute
\* and past the day
ThrAdvance ==
    /\ \E o \in {(WindowSeconds + 1) * TicksPerSecond, DaySeconds * TicksPerSecond + 1} :
           StartTime + o > now /\ now' = StartTime + o
    /\ rl_status' = <<>>
    /\ UNCHANGED <<rlVars, rl_callers>>
    /\ LimFrame

\* thread th goes on to line pc with its locals changed to rec
GoOn(th, rec) ==
    /\ rl_callers' = [rl_callers EXCEPT ![th] = rec]
    /\ rl_status' = <<>>
    /\ UNCHANGED admitted

\* can_make_request returns (allowed, message) to thread th: to line 68 of
\* wait_if_needed, which returns, sleeps or raises (lines 70-85), or to
\* line 123 of get_status, which returns its dictionary
CmrReturns(th, allowed, message) ==
    IF th = StatusThread
    THEN /\ rl_status' =
               << [daily_requests_used |-> rl_callers[th].used,
                   daily_requests_limit |-> limits.requests_per_day,
                   recent_requests_per_minute |-> rl_callers[th].rcount,
                   requests_per_minute_limit |-> limits.requests_per_minute,
                   recent_tokens_per_minute |-> rl_callers[th].tokens,
                   tokens_per_minute_limit |-> limits.tokens_per_minute,
                   can_make_request |-> allowed] >>
         /\ rl_callers' = [rl_callers EXCEPT ![th] = IdleThread]
         /\ UNCHANGED admitted
    ELSE /\ rl_status' = <<>>
         /\ admitted' = IF allowed THEN admitted + 1 ELSE admitted
         /\ rl_callers' = [rl_callers EXCEPT ![th] =
               [IdleThread EXCEPT
                  !.est = rl_callers[th].est,
                  !.pc = IF allowed THEN "admitted"
                         ELSE IF Contains(<<"wait">>, Lower(message.words))
                              THEN "sleeping" ELSE "raised",
                  !.wake = IF ~allowed /\ Contains(<<"wait">>, Lower(message.words))
                           THEN now + (wait_seconds(message) + WaitBuffer) * TicksPerSecond
                           ELSE 0,
                  !.exc = IF ~allowed /\ ~Contains(<<"wait">>, Lower(message.words))
                          THEN RateLimitError(message) ELSE NoException]]

\* the iteration of a deque raises in thread th: the error leaves
\* can_make_request and wait_if_needed or get_status, which catch nothing
DequeRaises(th) ==
    /\ rl_callers' = [rl_callers EXCEPT ![th] =
           [IdleThread EXCEPT !.pc = "raised", !.est = rl_callers[th].est,
                              !.exc = DequeMutatedError]]
    /\ rl_status' = <<>>
    /\ UNCHANGED admitted

\* a caller enters wait_if_needed(estimated_tokens) and can_make_request,
\* line 34
ThrCall(c) ==
    /\ c \in Callers
    /\ rl_callers[c].pc = "idle"
    /\ GoOn(c, [IdleThread EXCEPT !.pc = "L37", !.est = EstimateOf(c), !.t = now])
    /\ UNCHANGED <<now, request_times, daily_request_count, daily_reset_time,
                   token_usage, recorded>>
    /\ LimFrame

\* line 82: time.sleep returns, and the loop enters can_make_request again,
\* line 34
ThrWake(c) ==
    /\ rl_callers[c].pc = "sleeping"
    /\ now' = IF now >= rl_callers[c].wake THEN now ELSE rl_callers[c].wake
    /\ GoOn(c, [rl_callers[c] EXCEPT !.pc = "L37", !.t = now'])
    /\ UNCHANGED <<request_times, daily_request_count, daily_reset_time,
                   token_usage, recorded>>
    /\ LimFrame

\* line 37
ThrL37(th) ==
    /\ rl_callers[th].pc = "L37"
    /\ GoOn(th, [rl_callers[th] EXCEPT
                    !.pc = IF rl_callers[th].t - daily_reset_time > DaySeconds * TicksPerSecond
                           THEN "L38" ELSE "L43"])
    /\ UNCHANGED <<now, request_times, daily_request_count, daily_reset_time,
                   token_usage, recorded>>
    /\ LimFrame

\* line 38
ThrL38(th) ==
    /\ rl_callers[th].pc = "L38"
    /\ daily_request_count' = 0
    /\ GoOn(th, [rl_callers[th] EXCEPT !.pc = "L39"])
    /\ UNCHANGED <<now, request_times, daily_reset_time, token_usage, recorded>>
    /\ LimFrame

\* line 39
ThrL39(th) ==
    /\ rl_callers[th].pc = "L39"
    /\ daily_reset_time' = rl_callers[th].t
    /\ GoOn(th, [rl_callers[th] EXCEPT !.pc = "L43"])
    /\ UNCHANGED <<now, request_times, daily_request_count, token_usage, recorded>>
    /\ LimFrame

\* lines 43-44
ThrL43(th) ==
    /\ rl_callers[th].pc = "L43"
    /\ IF daily_request_count >= limits.requests_per_day
       THEN CmrReturns(th, FALSE, DailyLimitMessage)
       ELSE GoOn(th, [rl_callers[th] EXCEPT !.pc = "L48"])
    /\ UNCHANGED <<now, request_times, daily_request_count, daily_reset_time,
                   token_usage, recorded>>
    /\ LimFrame

\* line 48: the iteration of request_times begins
ThrL48(th) ==
    /\ rl_callers[th].pc = "L48"
    /\ GoOn(th, [rl_callers[th] EXCEPT !.pc = "L48i", !.seen = request_times])
    /\ UNCHANGED <<now, request_times, daily_request_count, daily_reset_time,
                   token_usage, recorded>>
    /\ LimFrame

\* lines 48-52: the iteration of request_times ends, and the per-minute
\* request check is made on the list it gave
ThrL48i(th) ==
    /\ rl_callers[th].pc = "L48i"
    /\ LET recent_requests == RecentOf(rl_callers[th].seen, rl_callers[th].t) IN
       IF request_times # rl_callers[th].seen
       THEN DequeRaises(th)
       ELSE IF Len(recent_requests) >= limits.requests_per_minute
            THEN CmrReturns(th, FALSE,
                     WaitMessage(WindowSeconds * TicksPerSecond - (rl_callers[th].t - recent_requests[1])))
            ELSE GoOn(th, [rl_callers[th] EXCEPT !.pc = "L55", !.seen = <<>>])
    /\ UNCHANGED <<now, request_times, daily_request_count, daily_reset_time,
                   token_usage, recorded>>
    /\ LimFrame

\* line 55: the iteration of token_usage begins
ThrL55(th) ==
    /\ rl_callers[th].pc = "L55"
    /\ GoOn(th, [rl_callers[th] EXCEPT !.pc = "L55i", !.seen = token_usage])
    /\ UNCHANGED <<now, request_times, daily_request_count, daily_reset_time,
                   token_usage, recorded>>
    /\ LimFrame

\* the end of can_make_request that logs the request it allows
ThrL55iReserving(th) ==
    /\ rl_callers[th].pc = "L55i"
    /\ LET total == TokensOf(rl_callers[th].seen, rl_callers[th].t) + rl_callers[th].est
           allowed == token_usage = rl_callers[th].seen
                      /\ total <= limits.tokens_per_minute
       IN /\ IF token_usage # rl_callers[th].seen
             THEN DequeRaises(th)
             ELSE IF total > limits.tokens_per_minute
                  THEN CmrReturns(th, FALSE, TokenLimitMessage(total))
                  ELSE CmrReturns(th, TRUE, OkMessage)
          /\ request_times' = IF allowed THEN DequeAppend(request_times, rl_callers[th].t)
                              ELSE request_times
    /\ UNCHANGED <<now, daily_request_count, daily_reset_time, token_usage, recorded>>
    /\ LimFrame

\* lines 55-63: the iteration of token_usage ends, and the token check is
\* made on the sum it gave
ThrL55i(th) ==
    /\ rl_callers[th].pc = "L55i"
    /\ LET total == TokensOf(rl_callers[th].seen, rl_callers[th].t) + rl_callers[th].est IN
       IF token_usage # rl_callers[th].seen
       THEN DequeRaises(th)
       ELSE IF total > limits.tokens_per_minute
            THEN CmrReturns(th, FALSE, TokenLimitMessage(total))
            ELSE CmrReturns(th, TRUE, OkMessage)
    /\ UNCHANGED <<now, request_times, daily_request_count, daily_reset_time,
                   token_usage, recorded>>
    /\ LimFrame

\* the admitted caller enters record_request with its estimate, line 89
ThrL89(c) ==
    /\ rl_callers[c].pc = "admitted"
    /\ GoOn(c, [rl_callers[c] EXCEPT !.pc = "L92", !.t = now])
    /\ UNCHANGED <<now, request_times, daily_request_count, daily_reset_time,
                   token_usage, recorded>>
    /\ LimFrame

\* line 92
ThrL92(c) ==
    /\ rl_callers[c].pc = "L92"
    /\ request_times' = DequeAppend(request_times, rl_callers[c].t)
    /\ GoOn(c, [rl_callers[c] EXCEPT !.pc = "L93"])
    /\ UNCHANGED <<now, daily_request_count, daily_reset_time, token_usage, recorded>>
    /\ LimFrame

\* line 93
ThrL93(c) ==
    /\ rl_callers[c].pc = "L93"
    /\ daily_request_count' = daily_request_count + 1
    /\ GoOn(c, [rl_callers[c] EXCEPT !.pc = "L96"])
    /\ UNCHANGED <<now, request_times, daily_reset_time, token_usage, recorded>>
    /\ LimFrame

\* lines 96-99, and the return of record_request
ThrL96(c) ==
    /\ rl_callers[c].pc = "L96"
    /\ token_usage' = DequeAppend(token_usage,
                          [time |-> rl_callers[c].t, tokens |-> rl_callers[c].est])
    /\ recorded' = recorded + 1
    /\ GoOn(c, [IdleThread EXCEPT !.pc = "done"])
    /\ UNCHANGED <<now, request_times, daily_request_count, daily_reset_time>>
    /\ LimFrame

\* the status thread enters get_status, line 107
ThrL107 ==
    /\ rl_callers[StatusThread].pc \in {"idle", "raised"}
    /\ rl_status = <<>>
    /\ GoOn(StatusThread, [IdleThread EXCEPT !.pc = "L110", !.t = now])
    /\ UNCHANGED <<now, request_times, daily_request_count, daily_reset_time,
                   token_usage, recorded>>
    /\ LimFrame

\* line 110: the iteration of request_times begins
ThrL110 ==
    /\ rl_callers[StatusThread].pc = "L110"
    /\ GoOn(StatusThread, [rl_callers[StatusThread] EXCEPT
                              !.pc = "L110i", !.seen = request_times])
    /\ UNCHANGED <<now, request_times, daily_request_count, daily_reset_time,
                   token_usage, recorded>>
    /\ LimFrame

\* line 110: the iteration ends and recent_requests is its length
ThrL110i ==
    /\ rl_callers[StatusThread].pc = "L110i"
    /\ LET me == rl_callers[StatusThread] IN
       IF request_times # me.seen
       THEN DequeRaises(StatusThread)
       ELSE GoOn(StatusThread, [me EXCEPT !.pc = "L111", !.seen = <<>>,
                                          !.rcount = Len(RecentOf(me.seen, me.t))])
    /\ UNCHANGED <<now, request_times, daily_request_count, daily_reset_time,
                   token_usage, recorded>>
    /\ LimFrame

\* line 111: the iteration of token_usage begins
ThrL111 ==
    /\ rl_callers[StatusThread].pc = "L111"
    /\ GoOn(StatusThread, [rl_callers[StatusThread] EXCEPT
                              !.pc = "L111i", !.seen = token_usage])
    /\ UNCHANGED <<now, request_times, daily_request_count, daily_reset_time,
                   token_usage, recorded>>
    /\ LimFrame

\* lines 111-114: the iteration ends and recent_tokens is its sum
ThrL111i ==
    /\ rl_callers[StatusThread].pc = "L111i"
    /\ LET me == rl_callers[StatusThread] IN
       IF token_usage # me.seen
       THEN DequeRaises(StatusThread)
       ELSE GoOn(StatusThread, [me EXCEPT !.pc = "L117", !.seen = <<>>,
                                          !.tokens = TokensOf(me.seen, me.t)])
    /\ UNCHANGED <<now, request_times, daily_request_count, daily_reset_time,
                   token_usage, recorded>>
    /\ LimFrame

\* line 117: the entry daily_requests_used of the dictionary
ThrL117 ==
    /\ rl_callers[StatusThread].pc = "L117"
    /\ GoOn(StatusThread, [rl_callers[StatusThread] EXCEPT
                              !.pc = "L123", !.used = daily_request_count])
    /\ UNCHANGED <<now, request_times, daily_request_count, daily_reset_time,
                   token_usage, recorded>>
    /\ LimFrame

\* line 123: get_status calls can_make_request(), line 34
ThrL123 ==
    /\ rl_callers[StatusThread].pc = "L123"
    /\ GoOn(StatusThread, [rl_callers[StatusThread] EXCEPT
                              !.pc = "L37", !.est = DefaultEstimate, !.t = now])
    /\ UNCHANGED <<now, request_times, daily_request_count, daily_reset_time,
                   token_usage, recorded>>
    /\ LimFrame

LimiterNext ==
    \/ \E c \in Callers : ThrCall(c)
    \/ \E c \in Callers : ThrWake(c)
    \/ \E th \in Callers \cup {StatusThread} : ThrL37(th)
    \/ \E th \in Callers \cup {StatusThread} : ThrL38(th)
    \/ \E th \in Callers \cup {StatusThread} : ThrL39(th)
    \/ \E th \in Callers \cup {StatusThread} : ThrL43(th)
    \/ \E th \in Callers \cup {StatusThread} : ThrL48(th)
    \/ \E th \in Callers \cup {StatusThread} : ThrL48i(th)
    \/ \E th \in Callers \cup {StatusThread} : ThrL55(th)
    \/ \E th \in Callers \cup {StatusThread} : ThrL55i(th)
    \/ \E c \in Callers : ThrL89(c)
    \/ \E c \in Callers : ThrL92(c)
    \/ \E c \in Callers : ThrL93(c)
    \/ \E c \in Callers : ThrL96(c)
    \/ ThrL107
    \/ ThrL110
    \/ ThrL110i
    \/ ThrL111
    \/ ThrL111i
    \/ ThrL117
    \/ ThrL123
    \/ ThrAdvance

SpecLimiter == ThreadsInit /\ [][LimiterNext]_vars

(***************************************************************************)
(* ExperimentController.validate_balance as a function of results          *)
(***************************************************************************)
\* line 218: the key of a result, profile_id.split('_')[0] joined with the
\* intervention
BalanceKey(r) == <<r.profile_id[1], r.intervention>>

\* lines 216-219: the dictionary combination_counts
combination_counts(successful_list) ==
    [k \in {BalanceKey(successful_list[i]) : i \in DOMAIN successful_list} |->
        Cardinality({i \in DOMAIN successful_list :
                        BalanceKey(successful_list[i]) = k})]

\* lines 210-228
validate_balance(results) ==
    LET cc == combination_counts(results.successful)
        counts == {cc[k] : k \in DOMAIN cc}
    IN  [is_balanced |-> Cardinality(counts) <= 2,
         combination_counts |-> cc,
         unique_counts |-> counts]

\* the (profile, intervention) cells of the results validate_balance is
\* applied to, and the numbers of successful conversations a cell may hold
BalanceCells ==
    << <<<<"left", "1">>, "shared_identity">>, <<<<"left", "2">>, "shared_identity">>,
       <<<<"right", "1">>, "shared_identity">>, <<<<"left", "1">>, "control">>,
       <<<<"left", "2">>, "control">>, <<<<"right", "1">>, "control">> >>
CellCounts == {0, 1, 2, 10}

\* results['successful'] holding f[k] entries of cell k, cell after cell
RECURSIVE SuccessfulOf(_, _)
SuccessfulOf(f, k) ==
    IF k > Len(BalanceCells) THEN <<>>
    ELSE [i \in 1..f[k] |-> [profile_id |-> BalanceCells[k][1],
                             intervention |-> BalanceCells[k][2],
                             message_count |-> DefaultMaxMessages,
                             file_path |-> i]]
         \o SuccessfulOf(f, k + 1)

\* every variable of simulate_conversation at rest
InactiveSimulation ==
    /\ pc = "off"
    /\ max_messages = DefaultMaxMessages
    /\ script = <<OkPlain>>
    /\ profile_data = ProfileCenter
    /\ intervention_type = Interventions[1]
    /\ conversation = <<>>
    /\ phase = "unbound"
    /\ reason = "unbound"
    /\ attempt = 0
    /\ call_attempts = 0
    /\ result = <<>>
    /\ exc = NoException
    /\ last_request_time = 0
    /\ now = StartTime
    /\ provider_calls = 0
    /\ prompt = NoPrompt
    /\ rng = <<>>
    /\ rng_pos = 0

BalanceInit ==
    /\ pf_in \in { <<[successful |-> SuccessfulOf(f, 1)]>> :
                   f \in [1..Len(BalanceCells) -> CellCounts] }
    /\ pf_out = <<>>
    /\ exit_status = -1
    /\ InactiveSimulation
    /\ InactiveShouldEnd
    /\ InactiveExperiment

ApplyValidateBalance ==
    /\ pf_out = <<>>
    /\ pf_out' = << validate_balance(pf_in[1]) >>
    /\ UNCHANGED <<pf_in, exit_status, simVars, seVars, expVars, rlVars, limVars>>

SpecBalance == BalanceInit /\ [][ApplyValidateBalance]_vars

(***************************************************************************)
(* MetricsAnalyzer._count_empathy_expressions.  The texts of this section  *)
(* are sequences of characters, each Hebrew letter under its name, so that *)
(* `phrase in content` is containment of one sequence in the other.        *)
(***************************************************************************)
\* lines 117-121: the list empathy_phrases
empathy_phrases == <<
       <<"alef", "nun", "yod", " ", "mem", "bet", "yod", "final_nun">>,
       <<"alef", "nun", "yod", " ", "mem", "bet", "yod", "nun", "he">>,
       <<"alef", "nun", "yod", " ", "yod", "kaf", "vav", "lamed", " ", "lamed", "he", "bet", "yod", "final_nun">>,
       <<"zayin", "he", " ", "mem", "vav", "bet", "final_nun">>,
       <<"alef", "nun", "yod", " ", "mem", "resh", "gimel", "yod", "shin">>,
       <<"alef", "nun", "yod", " ", "mem", "resh", "gimel", "yod", "shin", "he">>,
       <<"qof", "shin", "he", " ", "lamed", "yod", " ", "ayin", "final_mem">>,
       <<"alef", "nun", "yod", " ", "mem", "zayin", "dalet", "he", "he">>,
       <<"alef", "nun", "yod", " ", "shin", "vav", "mem", "ayin", " ", "alef", "vav", "tav", "final_kaf">> >>

\* lines 125-127: the phrases found in one message
RECURSIVE PhrasesIn(_, _)
PhrasesIn(content, k) ==
    IF k > Len(empathy_phrases) THEN 0
    ELSE (IF Contains(empathy_phrases[k], content) THEN 1 ELSE 0)
         + PhrasesIn(content, k + 1)

\* lines 123-129
RECURSIVE _count_empathy_expressions(_)
_count_empathy_expressions(conv) ==
    IF conv = <<>> THEN 0
    ELSE PhrasesIn(Head(conv).content, 1) + _count_empathy_expressions(Tail(conv))

\* the texts around a phrase in a turn, and a turn without any phrase
Before == { <<>>, <<"kaf", "final_nun", ",", " ">> }
After == { <<>>, <<" ", "alef", "vav", "tav", "final_kaf", ".">> }
PlainTurn == Turn("user", <<"lamed", "alef", " ", "bet", "tet", "vav", "het">>)

\* the transcripts the count is applied to: a phrase once in each of two
\* turns, with or without a turn between them, a phrase twice in one turn,
\* and transcripts without any phrase
MetricsInputs ==
    UNION { { << Turn("assistant", b \o empathy_phrases[k] \o a),
                 Turn("user", empathy_phrases[k]) >>,
              << Turn("assistant", b \o empathy_phrases[k] \o a), PlainTurn,
                 Turn("assistant", empathy_phrases[k] \o a) >> } :
            k \in DOMAIN empathy_phrases, b \in Before, a \in After }
    \cup { << Turn("user", empathy_phrases[k] \o <<" ">> \o empathy_phrases[k]) >> :
           k \in DOMAIN empathy_phrases }
    \cup { <<>>, <<PlainTurn>>, <<PlainTurn, PlainTurn>> }

MetricsInit ==
    /\ pf_in \in { <<c>> : c \in MetricsInputs }
    /\ pf_out = <<>>
    /\ exit_status = -1
    /\ InactiveSimulation
    /\ InactiveShouldEnd
    /\ InactiveExperiment

ApplyCountEmpathy ==
    /\ pf_out = <<>>
    /\ pf_out' = << _count_empathy_expressions(pf_in[1]) >>
    /\ UNCHANGED <<pf_in, exit_status, simVars, seVars, expVars, rlVars, limVars>>

SpecMetrics == MetricsInit /\ [][ApplyCountEmpathy]_vars

(***************************************************************************)
(* Properties of simulate_conversation                                     *)
(***************************************************************************)
Returned == pc = "done"
TotalMessages == result[1].total_messages
EndingReason == result[1].ending_reason

\* no text the stub returns carries a closing phrase
NeverEmitsPhrase ==
    \A k \in 1..Len(script) :
        script[k].kind = "ok" => ~HasEndingPhrase(Strip(script[k].text))

\* the stub always succeeds with one and the same closing phrase
AlwaysFixedPhrase ==
    \E k \in 1..Len(ending_phrases) : script = <<OkPhrase(k)>>

\* C1: every returned conversation has at most max_messages turns, for every
\* ceiling the caller passes (stated for the ceilings of at least 2, the two
\* opening turns being unconditional).
C1_LengthWithinCeiling ==
    (Returned /\ max_messages >= 2) => TotalMessages <= max_messages

\* C2: in a returned conversation two consecutive turns have different
\* roles, except possibly the last two, and those only when the ending
\* reason is not hard_limit.
C2_RolesAlternate ==
    Returned =>
        \A i \in 1..(Len(conversation) - 1) :
            conversation[i].role = conversation[i + 1].role =>
                /\ i = Len(conversation) - 1
                /\ EndingReason # "hard_limit"

\* a returned conversation that ended on a closing phrase and carries the
\* acknowledgment turn
C2_Witness ==
    /\ Returned
    /\ EndingReason = "natural_ending"
    /\ conversation[Len(conversation)].role = "user"
    /\ Len(conversation) > MinNaturalEnding

\* C3 as stated: a natural_ending or soft_ending conversation has at least
\* 18 and strictly fewer than 24 turns, acknowledgment included.
C3_Original ==
    (Returned /\ EndingReason \in {"natural_ending", "soft_ending"}) =>
        (MinNaturalEnding <= TotalMessages /\ TotalMessages < HardLimit)

\* C3 amended: a natural_ending or soft_ending conversation has at least 18
\* and at most 24 turns, acknowledgment included.
C3_EndingWindow ==
    (Returned /\ EndingReason \in {"natural_ending", "soft_ending"}) =>
        (MinNaturalEnding <= TotalMessages /\ TotalMessages <= HardLimit)

\* a soft ending decided at 23 turns: the acknowledgment makes 24
C3_Witness ==
    /\ Returned
    /\ EndingReason = "soft_ending"
    /\ TotalMessages = HardLimit

\* C4: with the ceiling at 4 and a provider that never emits a closing
\* phrase the conversation has exactly 4 turns and is tagged hard_limit.
C4_CeilingTaggedHardLimit ==
    (Returned /\ max_messages = 4 /\ NeverEmitsPhrase
        /\ ~get_user_stance_raises(profile_data)) =>
        (TotalMessages = 4 /\ EndingReason = "hard_limit")

\* C5: the ending reason of a returned conversation is hard_limit,
\* natural_ending or soft_ending (stated for the default ceiling, where the
\* loop runs).
C5_ReasonInTaxonomy ==
    (Returned /\ max_messages = DefaultMaxMessages) =>
        EndingReason \in {"hard_limit", "natural_ending", "soft_ending"}

\* C6 as stated: when the provider always returns a fixed closing phrase
\* the conversation ends with natural_ending and has 18 or 19 turns.
C6_Original ==
    (Returned /\ AlwaysFixedPhrase /\ max_messages > MinNaturalEnding) =>
        /\ EndingReason = "natural_ending"
        /\ MinNaturalEnding <= TotalMessages
        /\ TotalMessages <= MinNaturalEnding + 1

\* C6 amended: when the provider always returns a fixed closing phrase (and
\* the ceiling is above 18) the conversation ends with natural_ending; the
\* returned conversation has at least 18 turns and exceeds 18 by at most 2.
C6_FixedPhraseEnding ==
    (Returned /\ AlwaysFixedPhrase /\ max_messages > MinNaturalEnding) =>
        /\ EndingReason = "natural_ending"
        /\ MinNaturalEnding <= TotalMessages
        /\ TotalMessages <= MinNaturalEnding + 2

C6_Witness ==
    /\ Returned
    /\ AlwaysFixedPhrase
    /\ max_messages = DefaultMaxMessages
    /\ EndingReason = "natural_ending"
    /\ TotalMessages = MinNaturalEnding + 2

\* C7: should_end is first-match-wins: hard_limit whenever the count is at
\* least 24, whatever the last turn says; otherwise natural_ending exactly
\* when the count is at least 18 and the most recent turn carries a closing
\* phrase; otherwise soft_ending exactly when the count is at least 20 and
\* the draw is below 0.3; otherwise continue.
C7_FirstMatchWins ==
    se_out # <<>> =>
        LET n == se_in.message_count
            hit == se_in.tail.last_has_phrase
            d == se_in.draw
            out == se_out[1]
        IN  /\ (n >= 24) <=> (out = <<TRUE, "hard_limit">>)
            /\ (n < 24 /\ n >= 18 /\ hit) <=> (out = <<TRUE, "natural_ending">>)
            /\ (n < 24 /\ ~(n >= 18 /\ hit) /\ n >= 20 /\ d < 3)
                   <=> (out = <<TRUE, "soft_ending">>)
            /\ (~(n >= 24) /\ ~(n >= 18 /\ hit) /\ ~(n >= 20 /\ d < 3))
                   <=> (out = <<FALSE, "None">>)

\* the hard limit wins over a closing phrase in the last turn
C7_Witness ==
    /\ se_out = << <<TRUE, "hard_limit">> >>
    /\ se_in.tail.last_has_phrase
    /\ se_in.draw < 3

\* C8: when should_end decides to end for a reason other than hard_limit,
\* exactly one user turn is appended between the decision and the return;
\* on hard_limit nothing is appended.
C8_AckOnSoftEndings ==
    [][ /\ (pc = "check" /\ pc' = "return") =>
             IF reason' # "hard_limit"
             THEN /\ Len(conversation') = Len(conversation) + 1
                  /\ SubSeq(conversation', 1, Len(conversation)) = conversation
                  /\ conversation'[Len(conversation')].role = "user"
             ELSE conversation' = conversation
        /\ (pc = "return") => conversation' = conversation ]_vars

\* the acknowledgment is there when the conversation is returned
C8_Witness ==
    /\ Returned
    /\ EndingReason = "soft_ending"
    /\ \E c \in 1..Len(closings) :
          conversation[Len(conversation)] = Turn("user", closings[c])
    /\ conversation[Len(conversation) - 1].role = "assistant"

\* C9: a generation call makes at most 3 provider attempts and never raises
\* because of the provider: simulate_conversation is only ever aborted by
\* get_user_stance.
C9_BoundedAttemptsNoRaise ==
    /\ call_attempts <= max_retries
    /\ (pc \in {"agent_gen", "user_gen"} => call_attempts < max_retries)
    /\ (pc = "raised" => get_user_stance_raises(profile_data))

\* three failed attempts, and the turn is the fallback of the phase
C9_Witness ==
    /\ pc = "check"
    /\ call_attempts = max_retries
    /\ \A k \in 1..Len(script) : script[k].kind = "error"
    /\ conversation[Len(conversation)] =
          Turn("assistant", _get_fallback_response(phase, "agent"))

(***************************************************************************)
(* Properties of run_experiment                                            *)
(***************************************************************************)
\* three well-formed profiles and the three interventions
ThreeByThree ==
    /\ all_profiles = <<ProfileLeft, ProfileCenter, ProfileRight>>
    /\ ~test_mode
    /\ specific_profiles = <<>>

\* the stub raises the quota error on its 2nd, 4th, ... call
FailsEverySecondCall == script = <<OkPlain, QuotaErr>>

\* C10: no entry of failed[] carries a provider error; and with 3 profiles,
\* 3 interventions and a provider failing with quota-exhaustion on every 2nd
\* call (the disk writable, the daily quota not used up) the run ends with 9
\* entries in successful[] and none in failed[].
C10_ProviderFailuresMasked ==
    /\ \A k \in 1..Len(failed) : failed[k].error.type # "ProviderError"
    /\ (/\ exp_pc = "done"
        /\ ThreeByThree
        /\ FailsEverySecondCall
        /\ disk = "ok"
        /\ daily_request_count < requests_per_day)
       => (Len(successful) = 9 /\ failed = <<>>)

\* the 9 combinations are through, and the stub was called often enough to
\* have failed in every one of them
C10_Witness ==
    /\ exp_pc = "done"
    /\ ThreeByThree
    /\ FailsEverySecondCall
    /\ Len(successful) = 9
    /\ failed = <<>>
    /\ Len(saved) = 9
    /\ provider_calls >= 9 * 2 * (MinNaturalEnding - 2)


\* the combinations run_experiment plans outside test mode
Planned == Product(profiles_to_use)

\* the entries of a result list for one (profile, intervention) pair
Matches(entries, pair) ==
    {i \in DOMAIN entries : /\ entries[i].profile_id = pair[1].profile_id
                            /\ entries[i].intervention = pair[2]}

\* C15: between two combinations, record_request has been called once for
\* every request wait_if_needed admitted, whether the admitted combination
\* succeeded or ended in failed[]
C15_RecordedOncePerAdmission ==
    exp_pc \in {"admit", "finish", "done"} => recorded = admitted

\* C16: wait_if_needed has admitted every provider call made so far, retry
\* attempts included
C16_WaitBeforeEveryProviderCall ==
    provider_calls <= admitted

\* C19: when a run outside test mode returns, every pair of the
\* cross-product has exactly one entry, in successful[] or in failed[], and
\* the two lists together are as long as the plan
C19_EveryPairOnce ==
    (exp_pc = "done" /\ ~test_mode) =>
        /\ Len(combinations) = Len(Planned)
        /\ Len(successful) + Len(failed) = Len(Planned)
        /\ \A k \in DOMAIN Planned :
              Cardinality(Matches(successful, Planned[k]))
                + Cardinality(Matches(failed, Planned[k])) = 1
        /\ logs[Len(logs)] = [successful |-> Len(successful),
                              failed |-> Len(failed), final |-> TRUE]

\* a run of six combinations returned with successes and failures
C19_Witness ==
    /\ exp_pc = "done"
    /\ ~test_mode
    /\ Len(Planned) >= 6
    /\ successful # <<>>
    /\ failed # <<>>

\* C20: every raised combination has an entry in failed[] with its error,
\* and once run_experiment is over, by return or by exception, every planned
\* combination has been attempted
C20_FailureIsolated ==
    /\ \A i \in DOMAIN failed : failed[i].error.type # "none"
    /\ exp_pc \in {"done", "aborted"} =>
          Len(successful) + Len(failed) = Len(combinations)

\* the checkpoint logs written so far
Checkpoints == SelectSeq(logs, LAMBDA l : ~l.final)

\* C21: a checkpoint log is written at the third failure and at each later
\* one, never at the first or second, and a run that completes has written
\* the final log, with its totals, as its last log
C21_CheckpointsAndFinalLog ==
    /\ exp_pc # "aborted" =>
          Len(Checkpoints) = IF Len(failed) >= 3 THEN Len(failed) - 2 ELSE 0
    /\ \A i \in DOMAIN Checkpoints : Checkpoints[i].failed = i + 2
    /\ exp_pc = "done" =>
          /\ logs # <<>>
          /\ logs[Len(logs)] = [successful |-> Len(successful),
                                failed |-> Len(failed), final |-> TRUE]
          /\ Len(logs) = Len(Checkpoints) + 1

\* a completed run with four failures or more
C21_Witness ==
    /\ exp_pc = "done"
    /\ Len(failed) >= 4
    /\ Len(Checkpoints) = Len(failed) - 2

\* C22: the conversation of a combination is written once, before the
\* combination enters successful[] and before the next one starts: the files
\* written are those of the successful combinations, in order, plus the one
\* of the combination about to be recorded, and no combination has two
C22_SavedOnceBeforeRecorded ==
    /\ Len(saved) = Len(successful) + (IF exp_pc = "record" THEN 1 ELSE 0)
    /\ \A i \in DOMAIN successful :
          /\ saved[i].profile_id = successful[i].profile_id
          /\ saved[i].intervention = successful[i].intervention
          /\ saved[i].total_messages = successful[i].message_count
          /\ successful[i].file_path = i
    /\ \A i, j \in DOMAIN saved :
          (i # j) => <<saved[i].profile_id, saved[i].intervention>>
                        # <<saved[j].profile_id, saved[j].intervention>>
    /\ pc \in {"start", "loop", "agent_gen", "check", "user_gen", "return"} =>
          exp_pc = "simulate"

\* the second conversation is on disk and not yet in successful[]
C22_Witness ==
    /\ exp_pc = "record"
    /\ Len(saved) = 2
    /\ Len(successful) = 1

\* C25: run_experiment never completes a run over an empty set of profiles
C25_NoProfilesAborts ==
    exp_pc = "done" => profiles_to_use # <<>>

\* C26: a process whose run completed no combination does not exit with the
\* success status
C26_ExitReflectsSuccess ==
    (exit_status # -1 /\ successful = <<>>) => exit_status # 0

(***************************************************************************)
(* Properties of GeminiRateLimiter                                         *)
(***************************************************************************)
Estimates == {DefaultEstimate, EstimatedTokens}

\* the daily counter is at its ceiling and no day has passed since the reset
DailyBlocked ==
    /\ daily_request_count >= limits.requests_per_day
    /\ ~(now - daily_reset_time > DaySeconds * TicksPerSecond)

DailyWords == <<"Daily", "limit", "reached", "(", "#", "requests", ")">>

\* C11: once the daily counter has reached requests_per_day and no day has
\* rolled over, can_make_request refuses with the daily-limit reason,
\* whatever the request and token windows hold
C11_DailyCeilingRefuses ==
    DailyBlocked =>
        \A e \in Estimates :
            /\ can_make_request(e).allowed = FALSE
            /\ can_make_request(e).message.words = DailyWords
            /\ can_make_request(e).message.num = limits.requests_per_day

\* the daily ceiling is reached while the request window is full as well,
\* and a caller has been refused
C11_Witness ==
    /\ DailyBlocked
    /\ Len(RecentRequests) >= limits.requests_per_minute
    /\ \E c \in Callers : rl_callers[c].pc = "raised"

\* the requests logged less than a minute ago, counted from the log itself
InWindow ==
    {i \in DOMAIN request_times :
        now - request_times[i] < WindowSeconds * TicksPerSecond}

\* a ceiling of one request per minute, requests logged 61 and 1 seconds ago
OnePerMinuteScenario ==
    /\ limits.requests_per_minute = 1
    /\ request_times = <<now - (WindowSeconds + 1) * TicksPerSecond,
                         now - TicksPerSecond>>
    /\ DailyAfterReset.count < limits.requests_per_day

\* C12 as stated: in the scenario only the request of one second ago is in
\* the window and a new request is allowed
C12_Original ==
    OnePerMinuteScenario =>
        /\ Len(RecentRequests) = 1
        /\ can_make_request(DefaultEstimate).allowed

\* C12 amended: only the requests logged within the trailing 60 seconds are
\* counted; a request is refused for the request ceiling exactly when that
\* count has reached it, with the wait computed from the oldest of them; in
\* the scenario the one request in the window meets the ceiling of 1 and the
\* new request is refused with a wait of 59 seconds
C12_SlidingWindow ==
    /\ (DailyAfterReset.count < limits.requests_per_day) =>
          \A e \in Estimates :
             LET r == can_make_request(e) IN
             IF Cardinality(InWindow) >= limits.requests_per_minute
             THEN /\ ~r.allowed
                  /\ r.message.words = <<"Rate", "limit", ":", "wait", "#", "seconds">>
                  /\ \E i \in InWindow :
                        /\ \A j \in InWindow : i <= j
                        /\ r.message.num =
                              (WindowSeconds * TicksPerSecond
                               - (now - request_times[i])) \div TicksPerSecond
             ELSE r.message.words[1] # "Rate"
    /\ OnePerMinuteScenario =>
          /\ ~can_make_request(DefaultEstimate).allowed
          /\ can_make_request(DefaultEstimate).message.num = WindowSeconds - 1

C12_Witness ==
    /\ OnePerMinuteScenario
    /\ \E c \in Callers : rl_callers[c].pc = "sleeping"

\* C13: a turn of wait_if_needed that meets the daily ceiling raises the
\* rate-limit error in that turn: no sleep, no further check
C13_DailyBlockRaisesAtOnce ==
    [][\A c \in Callers :
          (/\ rl_callers[c].pc = "checking"
           /\ DailyAfterReset.count >= limits.requests_per_day
           /\ rl_callers'[c] # rl_callers[c])
          => /\ rl_callers'[c].pc = "raised"
             /\ rl_callers'[c].exc.type = "Exception"
             /\ rl_callers'[c].exc.msg = <<"Rate", "limit", "error", ":">> \o DailyWords
             /\ rl_callers'[c].wake = 0
             /\ now' = now]_vars

\* a caller was raised the daily-limit error on its first check
C13_Witness ==
    \E c \in Callers :
        /\ rl_callers[c].pc = "raised"
        /\ rl_callers[c].exc.msg = <<"Rate", "limit", "error", ":">> \o DailyWords
        /\ recorded = 0

\* C14: wait_if_needed raises only on a daily block; a block by the request
\* ceiling or by the token ceiling of the minute makes it sleep and recheck
C14_PerMinuteBlockSleeps ==
    \A c \in Callers :
        rl_callers[c].pc = "raised" =>
            rl_callers[c].exc.msg = <<"Rate", "limit", "error", ":">> \o DailyWords

\* C17: a call of get_status leaves the request log, the token log, the
\* daily counter and the daily reset time unchanged
C17_GetStatusReadOnly ==
    [][(rl_status = <<>> /\ rl_status' # <<>>) =>
          UNCHANGED <<request_times, token_usage, daily_request_count,
                      daily_reset_time>>]_vars

\* caller c is admitted by this step: its can_make_request returns
\* (True, "OK") from line 63 and its wait_if_needed returns
Admits(c) == rl_callers[c].pc = "L55i" /\ rl_callers'[c].pc = "admitted"

\* C18: the check reserves nothing: the step that admits a caller leaves
\* both logs and the daily counter as they were, so a check by the other
\* caller has the same outcome after it as before it; both callers are
\* admitted against the same slot and the requests recorded in the
\* trailing minute can exceed the ceiling
C18_CheckReservesNothing ==
    [][\A c, d \in Callers :
          (c # d /\ Admits(c))
          => /\ UNCHANGED <<request_times, token_usage, daily_request_count>>
             /\ wait_if_needed(EstimateOf(d))' = wait_if_needed(EstimateOf(d))]_vars

\* more requests recorded in the trailing minute than the ceiling allows
C18_Witness ==
    /\ Len(RecentRequests) > limits.requests_per_minute
    /\ recorded = 2

(***************************************************************************)
(* Properties of validate_balance                                          *)
(***************************************************************************)
\* the number of successful conversations of a (profile, intervention) cell
CellCount(k) ==
    Cardinality({i \in DOMAIN pf_in[1].successful :
                    /\ pf_in[1].successful[i].profile_id = BalanceCells[k][1]
                    /\ pf_in[1].successful[i].intervention = BalanceCells[k][2]})

\* C23: when every (profile, intervention) cell holds n or n+1 successful
\* conversations for some n, validate_balance reports is_balanced = True
C23_EvenCellsBalanced ==
    (/\ pf_out # <<>>
     /\ \E n \in 0..10 : \A k \in DOMAIN BalanceCells : CellCount(k) \in {n, n + 1})
    => pf_out[1].is_balanced

\* C24: when the numbers of successful conversations of two cells differ by
\* more than one, as with 0 and 10, validate_balance reports
\* is_balanced = False
C24_UnevenCellsUnbalanced ==
    (/\ pf_out # <<>>
     /\ \E k1, k2 \in DOMAIN BalanceCells : CellCount(k1) - CellCount(k2) > 1)
    => ~pf_out[1].is_balanced

(***************************************************************************)
(* Properties of MetricsAnalyzer                                           *)
(***************************************************************************)
\* the number of places of text t at which phrase p stands
Occurrences(p, t) ==
    Cardinality({i \in 1..(Len(t) - Len(p) + 1) : SubSeq(t, i, i + Len(p) - 1) = p})

\* C27: for every phrase of the empathy lexicon, a transcript in which the
\* phrase stands once in each of two turns and nowhere else has
\* empathy_expressions = 2
C27_TwoOccurrencesCountTwo ==
    pf_out # <<>> =>
        \A k \in DOMAIN empathy_phrases :
            (/\ Cardinality({i \in DOMAIN pf_in[1] :
                   Occurrences(empathy_phrases[k], pf_in[1][i].content) = 1}) = 2
             /\ \A i \in DOMAIN pf_in[1] :
                   Occurrences(empathy_phrases[k], pf_in[1][i].content) <= 1)
            => pf_out[1] = 2

(***************************************************************************)
(* Properties of the phases and of the retry loops                         *)
(***************************************************************************)
\* the phase of a turn count, by the thresholds
PhaseOfCount(n) ==
    IF n < 16 THEN "active"
    ELSE IF n <= 17 THEN "pre_closure"
    ELSE IF n <= 19 THEN "soft_closure"
    ELSE IF n <= 21 THEN "closure"
    ELSE "final"

\* the place of a phase in the order active, ..., final; 0 before the first
PhaseRank(ph) ==
    IF ph = "unbound" THEN 0
    ELSE CHOOSE k \in 1..(Len(Phases) + 1) :
            IF \E j \in DOMAIN Phases : Phases[j] = ph THEN Phases[k] = ph
            ELSE k = Len(Phases) + 1

\* C28: each time the loop of simulate_conversation takes the phase, the
\* phase is the one of the turn count alone (active below 16, pre_closure
\* for 16-17, soft_closure for 18-19, closure for 20-21, final from 22 on),
\* and no step of a conversation moves the phase backwards in the order
\* active, pre_closure, soft_closure, closure, final
C28_PhaseFollowsTurnCount ==
    [][/\ (pc = "loop" /\ pc' # "return" =>
              phase' = PhaseOfCount(Len(conversation)))
       /\ phase' \in {"unbound"} \cup {Phases[k] : k \in DOMAIN Phases}
       /\ PhaseRank(phase') >= PhaseRank(phase)]_vars

\* a conversation that has gone through the table and taken the phase beyond
\* its last row
C28_Witness ==
    /\ pc = "agent_gen"
    /\ Len(conversation) >= 24
    /\ phase = "final"

\* an attempt of one of the two generators is under way and the provider
\* fails it
AttemptFails ==
    /\ pc \in {"agent_gen", "user_gen"}
    /\ ProviderOutcome.kind # "ok"

\* C29: a quota-exhaustion error on an attempt before the last makes the
\* generator sleep the delay of the payload, or 60 s when the payload has
\* none, plus 2 s, and attempt again; a failure of the last attempt is not
\* slept on and the generator returns a turn
C29_QuotaSleepThenRetry ==
    [][AttemptFails =>
        /\ (/\ ProviderOutcome.code429 /\ ProviderOutcome.exhausted
            /\ attempt < 2)
           => /\ now' = AfterRateLimitWait
                        + (2 + (IF ProviderOutcome.hasDelay
                                THEN ProviderOutcome.retryDelay ELSE 60))
                          * TicksPerSecond
              /\ attempt' = attempt + 1
              /\ pc' = pc
              /\ conversation' = conversation
        /\ attempt = 2
           => /\ now' = AfterRateLimitWait
              /\ pc' \in {"check", "loop"}
              /\ Len(conversation') = Len(conversation) + 1]_vars

\* the generator has slept the 7 s of the payload plus 2 s twice and its
\* last attempt meets the quota error again
C29_Witness ==
    /\ pc = "agent_gen"
    /\ attempt = 2
    /\ ProviderOutcome = QuotaErrDelay
    /\ now = last_request_time
             + (QuotaErrDelay.retryDelay + RetryBuffer) * TicksPerSecond

\* C30: when the last attempt of a generation call fails, the agent's turn
\* is the canned agent response of the current phase, and the subject's turn
\* is one of the typical phrases of the persona, or the canned subject
\* response of the current phase when the persona has none
C30_FallbackByPhaseOrPersona ==
    [][(AttemptFails /\ attempt = max_retries - 1) =>
        LET turn == conversation'[Len(conversation')] IN
        /\ conversation' = Append(conversation, turn)
        /\ phase = PhaseOfCount(Len(conversation))
        /\ pc = "agent_gen" =>
              turn = Turn("assistant", _get_fallback_response(phase, "agent"))
        /\ pc = "user_gen" =>
              /\ turn.role = "user"
              /\ IF profile_data.typical_phrases # <<>>
                 THEN \E k \in DOMAIN profile_data.typical_phrases :
                         turn.content = profile_data.typical_phrases[k]
                 ELSE turn.content = _get_fallback_response(phase, "user")]_vars

\* the agent's third attempt has failed in the closure phase and its canned
\* response of that phase is the last turn
C30_Witness ==
    /\ pc = "check"
    /\ call_attempts = max_retries
    /\ phase = "closure"
    /\ conversation[Len(conversation)] =
          Turn("assistant", _get_fallback_response("closure", "agent"))

(***************************************************************************)
(* Properties of the prompts                                               *)
(***************************************************************************)
\* C31: the prompt of every generated turn, the agent's and the subject's,
\* carries at most a fixed number of the most recent turns (the window of
\* four turns the code has), however long the conversation is
C31_PromptHistoryBounded ==
    prompt.role # "none" => Len(prompt.history) <= UserHistoryWindow

\* C40: the phase given to every generation call, the agent's and the
\* subject's, is get_phase of the number of turns the transcript has when
\* the call is made, the subject's call included, which is made one turn
\* after the phase was taken
C40_PhaseCurrentAtEveryCall ==
    [][provider_calls' # provider_calls =>
          /\ prompt'.phase = phase
          /\ prompt'.phase = get_phase(Len(conversation))]_vars

\* a subject call made at 17 turns with the phase taken at 16 turns
C40_Witness ==
    /\ pc = "user_gen"
    /\ attempt = 1
    /\ Len(conversation) = 17
    /\ prompt = UserPrompt(conversation, "pre_closure")

(***************************************************************************)
(* Properties of the shape of a returned conversation                      *)
(***************************************************************************)
\* the number of turns of conversation c with the given role
TurnsOf(c, role) == Cardinality({i \in DOMAIN c : c[i].role = role})

\* agent first, subject last, as many agent turns as subject turns
EvenShape(c) ==
    /\ c[1].role = "assistant"
    /\ c[Len(c)].role = "user"
    /\ Len(c) % 2 = 0
    /\ TurnsOf(c, "assistant") = TurnsOf(c, "user")

\* C38 as stated: every returned conversation starts with an agent turn,
\* ends with a subject turn and has an even number of turns, as many of the
\* agent as of the subject, for any ceiling and any ending reason
C38_Original ==
    Returned => EvenShape(conversation)

\* C38 amended: every returned conversation starts with an agent turn; one
\* whose ending reason is not hard_limit ends with a subject turn and has an
\* even number of turns, as many of the agent as of the subject; one whose
\* ending reason is hard_limit ends with an agent turn and has one agent
\* turn more than subject turns
C38_ShapeByEndingReason ==
    Returned =>
        IF EndingReason # "hard_limit" THEN EvenShape(conversation)
        ELSE /\ conversation[1].role = "assistant"
             /\ conversation[Len(conversation)].role = "assistant"
             /\ TurnsOf(conversation, "assistant") = TurnsOf(conversation, "user") + 1

\* a conversation returned at the hard limit, and so with a ceiling above 24
C38_Witness ==
    /\ Returned
    /\ EndingReason = "hard_limit"
    /\ TotalMessages = HardLimit + 1
    /\ max_messages > HardLimit

(***************************************************************************)
(* Properties of the place of the ending check                             *)
(***************************************************************************)
\* the last turn of the transcript
LastTurn == conversation[Len(conversation)]

\* C39: each evaluation of the ending check comes right after an agent turn
\* was appended: the turn count it is given is odd, the text matched
\* against the closing phrases is the agent's, and a closing phrase in the
\* subject's turn before it does not end the conversation
C39_CheckOnlyAfterAgentTurn ==
    [][(pc = "check" /\ pc' # "check") =>
          /\ Len(conversation) % 2 = 1
          /\ LastTurn.role = "assistant"
          /\ reason' = "natural_ending" => HasEndingPhrase(LastTurn.content)
          /\ (/\ ~HasEndingPhrase(LastTurn.content)
              /\ Len(conversation) < SoftEndingStart)
             => /\ pc' = "user_gen"
                /\ conversation' = conversation]_vars

\* the check at 19 turns has let the conversation go on although the
\* subject's turn before the agent's carried a closing phrase
C39_Witness ==
    /\ pc = "user_gen"
    /\ Len(conversation) = MinNaturalEnding + 1
    /\ conversation[MinNaturalEnding].role = "user"
    /\ HasEndingPhrase(conversation[MinNaturalEnding].content)
    /\ ~HasEndingPhrase(LastTurn.content)

(***************************************************************************)
(* Properties of the work done by one simulate_conversation call           *)
(***************************************************************************)
\* the turns produced by the two generators so far: all but the two opening
\* turns and the acknowledgment turn
GeneratedTurns ==
    Len(conversation) - 2
    - (IF pc \in {"return", "done"} /\ reason \in {"natural_ending", "soft_ending"}
       THEN 1 ELSE 0)

\* C37: a call of simulate_conversation generates at most max_messages - 2
\* turns, and makes at most 3 provider attempts for each of that many turns
\* (stated for the ceilings of at least 2, the two opening turns being
\* unconditional)
C37_BoundedGenerations ==
    (pc # "start" /\ max_messages >= 2) =>
        /\ GeneratedTurns <= max_messages - 2
        /\ provider_calls <= max_retries * (max_messages - 2)

(***************************************************************************)
(* Properties of the daily rollover and of the ceilings of the limiter     *)
(***************************************************************************)
\* the step evaluates can_make_request: a turn of the loop of
\* wait_if_needed, or get_status
CallsCanMakeRequest ==
    \/ \E c \in Callers : rl_callers[c].pc = "checking" /\ rl_callers'[c].pc # "checking"
    \/ rl_status' # <<>>

\* a day has passed since the last reset at the clock reading of the
\* step's can_make_request (line 34)
DayPassed == now' - daily_reset_time > DaySeconds * TicksPerSecond

\* C32: the daily counter goes back to 0 and the reset time moves to the
\* time read by the call only in a step that evaluates can_make_request more
\* than a day after the last reset, and every such step does so; until then the
\* counter and the reset time stay, and record_request only adds one to the
\* counter
C32_LazyDailyRollover ==
    [][/\ (daily_reset_time' # daily_reset_time \/ daily_request_count' < daily_request_count)
          => /\ CallsCanMakeRequest
             /\ DayPassed
             /\ daily_request_count' = 0
             /\ daily_reset_time' = now'
       /\ (CallsCanMakeRequest /\ DayPassed)
          => (daily_request_count' = 0 /\ daily_reset_time' = now')
       /\ recorded' # recorded
          => /\ daily_request_count' = daily_request_count + 1
             /\ daily_reset_time' = daily_reset_time]_vars

\* requests were recorded, a day passed and a check has reset the counter
C32_Witness ==
    /\ recorded > 0
    /\ daily_reset_time = StartTime + DaySeconds * TicksPerSecond + 1
    /\ daily_request_count = 0

\* C35: with one caller, which records a request only after wait_if_needed
\* has returned, the requests logged within the trailing 60 seconds never
\* exceed requests_per_minute and the daily counter never exceeds
\* requests_per_day
C35_SingleCallerWithinCeilings ==
    /\ Len(RecentRequests) <= limits.requests_per_minute
    /\ daily_request_count <= limits.requests_per_day

\* the caller is kept waiting with the per-minute ceiling met by its own
\* recorded requests
C35_Witness ==
    /\ rl_callers[TheCaller].pc = "sleeping"
    /\ Len(RecentRequests) = limits.requests_per_minute
    /\ recorded = limits.requests_per_minute

\* the caller is in the loop of wait_if_needed after a sleep
Rechecking ==
    /\ rl_callers[TheCaller].pc = "checking"
    /\ rl_callers[TheCaller].wake # 0

\* this turn of the loop of wait_if_needed is refused and sleeps
BlockedNow ==
    /\ rl_callers[TheCaller].pc = "checking"
    /\ rl_callers'[TheCaller].pc = "sleeping"

\* C36: with one caller, a turn of wait_if_needed that is refused on the
\* per-minute ceiling sleeps the whole seconds of the wait and one more,
\* which ends after the oldest request of the window has left it, whatever
\* fraction of a second the wait had; so the check after the sleep is not
\* refused on that ceiling again and a call sleeps at most once; and every
\* call of wait_if_needed comes to its return or its raise
C36_WaitTerminates ==
    /\ [][BlockedNow =>
            /\ rl_callers'[TheCaller].wake
                  = now + ((WindowSeconds * TicksPerSecond - (now - RecentRequests[1]))
                           \div TicksPerSecond + 1) * TicksPerSecond
            /\ rl_callers'[TheCaller].wake
                  >= RecentRequests[1] + WindowSeconds * TicksPerSecond]_vars
    /\ [][Rechecking => rl_callers'[TheCaller].pc # "sleeping"]_vars
    /\ (rl_callers[TheCaller].pc = "checking")
          ~> (rl_callers[TheCaller].pc \in {"admitted", "raised"})

\* the caller was refused a fraction of a second after its last request,
\* has slept the truncated wait and one second, and the check made when the
\* sleep ended has admitted it
C36_Witness ==
    /\ rl_callers[TheCaller].pc = "admitted"
    /\ rl_callers[TheCaller].wake = now
    /\ request_times # <<>>
    /\ now - request_times[Len(request_times)] > WindowSeconds * TicksPerSecond
    /\ (now - request_times[Len(request_times)]) % TicksPerSecond # 0

(***************************************************************************)
(* Properties of the pauses of run_experiment                              *)
(***************************************************************************)
\* the step ends the combination at position idx of the schedule, by its
\* success or by its failure
EndsCombination == exp_pc \in {"record", "except"} /\ exp_pc' # exp_pc

\* C33: the step that ends a combination other than the last makes the
\* controller pause 60 s when the position of the combination is a multiple
\* of 5 and 5 s otherwise; the step that ends the last combination makes no
\* pause
C33_PauseAfterEveryCombination ==
    [][EndsCombination =>
          now' - now = IF idx >= Len(combinations) THEN 0
                       ELSE IF idx % 5 = 0 THEN 60 * TicksPerSecond
                       ELSE 5 * TicksPerSecond]_vars

\* the error is the limiter's own: "Rate limit error: ..."
IsLimiterError(e) ==
    /\ Len(e.msg) >= 4
    /\ SubSeq(e.msg, 1, 4) = <<"Rate", "limit", "error", ":">>

\* C34: the handling of a combination failed by a rate-limit error sleeps
\* 300 s once and goes on to the next planned combination, or to the end of
\* the run after the last one; the combination is not taken again and the
\* run is not aborted
C34_CooldownThenResume ==
    [][(exp_pc = "except" /\ IsLimiterError(exc) /\ exp_pc' # exp_pc) =>
          /\ now' = now + 300 * TicksPerSecond
          /\ idx' = idx + 1
          /\ exp_pc' = IF idx < Len(combinations) THEN "admit" ELSE "finish"
          /\ combinations' = combinations]_vars

====
